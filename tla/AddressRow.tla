------------------------------ MODULE AddressRow ------------------------------
(***************************************************************************)
(* Tables address, device (its address_id only) and deploy.  An ORM        *)
(* instance carries the device_num it was loaded with, and a save writes   *)
(* the sum, not the increment.  An UPDATE that meets no row raises, and so *)
(* does a foreign key without its address.                                 *)
(***************************************************************************)
EXTENDS Naturals, FiniteSets

CONSTANTS Device,        \* device ids, in the order the table is read
          Address,
          Unborn, Gone,  \* no row yet, and no row any more
          Nowhere        \* address_id is NULL

ASSUME AddressAssumption == /\ Device \subseteq Nat /\ Device # {} /\ IsFiniteSet(Device)
                            /\ {Unborn, Gone, Nowhere} \cap Address = {}
                            /\ Cardinality({Unborn, Gone, Nowhere}) = 3

VARIABLES sites,         \* the addresses that have a row
          num,           \* num[a]: device_num
          place,         \* place[d]: address_id of the device
          logged         \* logged[d]: the address of its newest deploy row

addressVars == <<sites, num, place, logged>>

AddressTypeOK ==
    /\ sites \subseteq Address
    /\ num \in [Address -> Nat]
    /\ place \in [Device -> Address \cup {Unborn, Gone, Nowhere}]
    /\ logged \in [Device -> Address \cup {Nowhere}]

Alive == {d \in Device : place[d] \notin {Unborn, Gone}}
DevicesAt(a) == {d \in Device : place[d] = a}

(* Address.create(..., device_num=0), refused by location_index_key *)
InsertAddress(a) ==
    /\ a \notin sites
    /\ sites' = sites \cup {a}
    /\ num' = [num EXCEPT ![a] = 0]
    /\ UNCHANGED <<place, logged>>

(* DeviceService.create: device_code is unique, address_id a foreign key *)
MayInsert(d, a) == place[d] = Unborn /\ a \in sites

InsertDevice(d, a) ==
    /\ MayInsert(d, a)
    /\ place' = [place EXCEPT ![d] = a]
    /\ UNCHANGED <<sites, num, logged>>

(* Mutation of SaveNum: device_num = device_num + 1 whatever was asked for *)
SaveNum_up(a, n) ==
    /\ a \in sites
    /\ num' = [num EXCEPT ![a] = @ + 1]
    /\ UNCHANGED <<sites, place, logged>>

(* add_device_num and save, n being the sum *)
SaveNum(a, n) ==
    /\ a \in sites
    /\ num' = [num EXCEPT ![a] = n]
    /\ UNCHANGED <<sites, place, logged>>

(* The same save with device.address_id in the session *)
MayMove(d, a) == d \in Alive /\ a \in sites

MoveDevice(d, a, n) ==
    /\ MayMove(d, a)
    /\ place' = [place EXCEPT ![d] = a]
    /\ num' = [num EXCEPT ![a] = n]
    /\ UNCHANGED <<sites, logged>>

InsertDeploy(d, a) ==
    /\ logged' = [logged EXCEPT ![d] = a]
    /\ UNCHANGED <<sites, num, place>>

(* Device.delete: one transaction; a device already gone is no error, and *)
(* a count of 0 is left alone                                             *)
MayDelete(a, n) == a # Nowhere /\ (n > 0 => a \in sites)

DeleteDevice(d, a, n) ==
    /\ MayDelete(a, n)
    /\ place' = [place EXCEPT ![d] = Gone]
    /\ num' = IF n > 0 THEN [num EXCEPT ![a] = n - 1] ELSE num
    /\ UNCHANGED <<sites, logged>>

(* ModelBase.delete of an address: the devices it knew of lose their       *)
(* address (device_query is a relationship without a cascade), any other   *)
(* device of the address keeps it from going                               *)
MayErase(a, kids) == kids \subseteq Alive /\ DevicesAt(a) \subseteq kids

EraseAddress(a, kids) ==
    /\ MayErase(a, kids)
    /\ sites' = sites \ {a}
    /\ num' = [num EXCEPT ![a] = 0]
    /\ place' = [d \in Device |-> IF d \in kids THEN Nowhere ELSE place[d]]
    /\ UNCHANGED logged
=============================================================================
