------------------------------ MODULE MCDrive ------------------------------
(***************************************************************************)
(* Two modules of the drive loop, one at a time: the coordinator of the    *)
(* connections in its open environment, and the owners of the volume.      *)
(***************************************************************************)
EXTENDS MCConnectionCycle, QuietVolume

CONSTANT Parts   \* those checked: "cycle", "volume"

VARIABLE part

driveVars == << part, vars, volumeVars >>

\* << main, muted >>; none of them is a reduction.
MCChoices == { << 5, 1 >>, << 7, 3 >> }

DriveInit == part \in Parts /\ Init /\ VolumeInit /\ (part = "cycle" => ~slow)

DriveNext ==
    \/ part = "cycle" /\ Next /\ UNCHANGED << part, volumeVars >>
    \/ part = "volume" /\ VolumeNext /\ UNCHANGED << part, vars >>

\* FairSpec and VolumeFairSpec, each for its part.
DriveSpec ==
    /\ DriveInit /\ [][DriveNext]_driveVars
    /\ WF_vars(part = "cycle" /\ UpdateStep) /\ WF_vars(part = "cycle" /\ Tick)
    /\ WF_volumeVars(part = "volume" /\ ParsePacket)
    /\ WF_volumeVars(part = "volume" /\ Emit)
    /\ WF_volumeVars(part = "volume" /\ (WorkerStarts \/ Applied \/ NotApplied))
    /\ WF_volumeVars(part = "volume" /\ CalmPass)
    /\ WF_volumeVars(part = "volume" /\ PushEnds)
    /\ SF_volumeVars(part = "volume" /\ Applied)
=============================================================================
