---------------------------- MODULE MCCatalogues ----------------------------
(***************************************************************************)
(* Two lists whose entries are spread over several stores, one at a time:  *)
(* the Wi-Fi networks with their passwords, and the detectors with their   *)
(* mirror, the intent of a deletion and the fallback address.              *)
(***************************************************************************)
EXTENDS MCWifiCredentials

CONSTANT Parts   \* those checked: "credentials", "devices"

VARIABLES part,
          fs, drives, nvs, last, call, ack, gone, apart, count   \* DeviceStore

Devices == INSTANCE DeviceStore WITH
    Addresses <- { "a", "b" }, Values <- { 0, 1 }, ram <- drives, forked <- apart,
    MaxDevices <- 1, MaxEdits <- 2, MaxTrouble <- 1, MaxBoots <- 3

deviceVars == << fs, drives, nvs, last, call, ack, gone, apart, count >>
listVars == << part, vars, deviceVars >>

\* The list that does not run stays as it begins.
ListsInit ==
    /\ part \in Parts
    /\ Init /\ Devices!Init
    /\ part = "credentials" => nvs.fallback = "none"
    /\ part = "devices" => ram.net \in [ Slots -> { None } ] /\ media = "none"

ListsNext ==
    \/ part = "credentials" /\ Next /\ UNCHANGED << part, deviceVars >>
    \/ part = "devices" /\ Devices!Next /\ UNCHANGED << part, vars >>

ListsSpec == ListsInit /\ [][ListsNext]_listVars

\* V1DeviceStore: a deleted detector does not return, a clean catalogue is on
\* both media, and a boot loads the one last acknowledged.
DevicesKept ==
    /\ [](part = "devices" =>
            Devices!TypeOK /\ Devices!NoResurrection /\ Devices!CleanMeansMirrored)
    /\ [][part = "devices" => Devices!DurableStep]_listVars
=============================================================================
