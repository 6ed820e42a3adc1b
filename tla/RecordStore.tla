---------------------------- MODULE RecordStore ----------------------------
(***************************************************************************)
(* The values of one node's record store (records.go) and the pure part of *)
(* every operation on it: what the store holds once the operation is over. *)
(*                                                                         *)
(* A Go map from hostname to T is a total function on Hosts into T plus a  *)
(* sentinel for "no such key".  Node IDs are naturals, ordered as the Go   *)
(* strings are; 0 stands for the empty string, so that ZeroMeta is the     *)
(* zero value of RecordMeta.                                               *)
(***************************************************************************)
EXTENDS Naturals

CONSTANTS
    Names,   \* hostnames as labels, queries and messages spell them
    Lower,   \* strings.ToLower on Names
    IPs,     \* addresses
    NoIP,    \* no such key in the data map
    NoMeta   \* no such key in the meta map

Meta == [ts : Nat, node : Nat]
ZeroMeta == [ts |-> 0, node |-> 0]

ASSUME StoreAssumption ==
    /\ Lower \in [Names -> Names]
    /\ \A n \in Names : Lower[Lower[n]] = Lower[n]
    /\ NoIP \notin IPs
    /\ NoMeta \notin Meta

(* The keys of the two maps: every operation lowercases its argument. *)
Hosts == {Lower[n] : n \in Names}

DataMaps == [Hosts -> IPs \cup {NoIP}]
MetaMaps == [Hosts -> Meta \cup {NoMeta}]
Stores == [data : DataMaps, meta : MetaMaps]
EmptyStore == [data |-> [h \in Hosts |-> NoIP], meta |-> [h \in Hosts |-> NoMeta]]

(* RecordMessage: timestamp and node ID are one field.  A removal carries  *)
(* no address.                                                             *)
Messages ==
    [action : {"add"}, host : Names, ip : IPs, meta : Meta]
        \cup [action : {"remove"}, host : Names, ip : {NoIP}, meta : Meta]

(* The full state of push/pull, a RecordEntry per key of the data map. *)
FullStates == [Hosts -> [ip : IPs \cup {NoIP}, meta : Meta]]

----------------------------------------------------------------------------
(* Mutant: on equal timestamps the later arrival wins, whatever its node. *)
OutranksOnTies(m, e) == e = NoMeta \/ m.ts >= e.ts

(* The last-write-wins test shared by AddWithMeta and RemoveWithMeta: the  *)
(* update is not rejected as stale against the existing metadata e.        *)
Outranks(m, e) ==
    \/ e = NoMeta
    \/ m.ts > e.ts
    \/ m.ts = e.ts /\ m.node > e.node

(* The plain operations, used by the Docker watcher, touch only the data.  *)
Add(s, h, ip) == [data |-> [s.data EXCEPT ![Lower[h]] = ip], meta |-> s.meta]

(* Mutant: the plain removal deletes the metadata as well. *)
RemoveForgets(s, h) ==
    [data |-> [s.data EXCEPT ![Lower[h]] = NoIP],
     meta |-> [s.meta EXCEPT ![Lower[h]] = NoMeta]]

Remove(s, h) == [data |-> [s.data EXCEPT ![Lower[h]] = NoIP], meta |-> s.meta]

(* Mutant: the data map is rebuilt with the caller's spelling as its key. *)
AddWithMetaRawKey(s, h, ip, m) ==
    IF Outranks(m, s.meta[Lower[h]])
    THEN [data |-> [k \in DOMAIN s.data \cup {h} |-> IF k = h THEN ip ELSE s.data[k]],
          meta |-> [s.meta EXCEPT ![Lower[h]] = m]]
    ELSE s

AddWithMeta(s, h, ip, m) ==
    IF Outranks(m, s.meta[Lower[h]])
    THEN [data |-> [s.data EXCEPT ![Lower[h]] = ip],
          meta |-> [s.meta EXCEPT ![Lower[h]] = m]]
    ELSE s

(* Mutant: the removal forgets to delete the metadata. *)
RemoveWithMetaKeepsMeta(s, h, m) ==
    IF s.data[Lower[h]] # NoIP /\ Outranks(m, s.meta[Lower[h]])
    THEN [data |-> [s.data EXCEPT ![Lower[h]] = NoIP], meta |-> s.meta]
    ELSE s

(* A removal of an absent record changes nothing, and one that is applied  *)
(* deletes the metadata along with the record: there is no tombstone.      *)
RemoveWithMeta(s, h, m) ==
    IF s.data[Lower[h]] # NoIP /\ Outranks(m, s.meta[Lower[h]])
    THEN [data |-> [s.data EXCEPT ![Lower[h]] = NoIP],
          meta |-> [s.meta EXCEPT ![Lower[h]] = NoMeta]]
    ELSE s

ApplyMessage(s, msg) ==
    IF msg.action = "add"
    THEN AddWithMeta(s, msg.host, msg.ip, msg.meta)
    ELSE RemoveWithMeta(s, msg.host, msg.meta)

(* The write calls a goroutine can make on Records: the two plain ones and *)
(* ApplyMessage.                                                           *)
Calls ==
    [action : {"Add"}, host : Names, ip : IPs]
        \cup [action : {"Remove"}, host : Names]
        \cup Messages

Plain(op) == op.action \in {"Add", "Remove"}

Apply(s, op) ==
    IF op.action = "Add" THEN Add(s, op.host, op.ip)
    ELSE IF op.action = "Remove" THEN Remove(s, op.host)
    ELSE ApplyMessage(s, op)

(* Mutant: a key without metadata is encoded without the zero value. *)
SnapshotNoZero(data, meta) ==
    [h \in Hosts |-> [ip |-> data[h], meta |-> meta[h]]]

(* GetAllWithMeta, from the two maps it loaded.  A key that is missing     *)
(* from the meta map reads as the zero RecordMeta.                         *)
Snapshot(data, meta) ==
    [h \in Hosts |-> [ip   |-> data[h],
                      meta |-> IF data[h] = NoIP \/ meta[h] = NoMeta
                               THEN ZeroMeta ELSE meta[h]]]

(* An entry of a full state as the message MergeRemoteState makes of it. *)
EntryMessage(h, entry) ==
    [action |-> "add", host |-> h, ip |-> entry.ip, meta |-> entry.meta]

NoEntry == [ip |-> NoIP, meta |-> ZeroMeta]
============================================================================
