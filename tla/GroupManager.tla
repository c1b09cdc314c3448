---------------------------- MODULE GroupManager ----------------------------
(***************************************************************************)
(* The group manager of log-cache (src/internal/groups/manager.go).  It    *)
(* keeps, per group name, the source ids of the group (a slice: the same   *)
(* id may be added twice) and the requesters that read the group with the  *)
(* time of their last read.  It tells its DataStorage which sources to     *)
(* fetch (Add/Remove) and which requesters share the group                 *)
(* (AddRequester/RemoveRequester).  Every handler holds m.mu for its whole *)
(* body, so each one is one atomic step.                                   *)
(*                                                                         *)
(*  groups             m.m: name -> [sourceIDs, requesterIDs]              *)
(*  now                time.Now(), advanced by Tick                        *)
(*  storageSources     net number of s.Add minus s.Remove calls per        *)
(*                     (name, source)                                      *)
(*  storageRequesters  the (name, requester) pairs the storage was told    *)
(*                     to add and not yet told to remove                   *)
(*  groupResp          a Group response gRPC has not marshalled yet: its   *)
(*                     SourceIds slice shares the backing array of the     *)
(*                     group's list                                        *)
(*                                                                         *)
(* A group's list is a Go slice: sourceIDs is what its length covers and   *)
(* spare the rest of its backing array, which append fills in place until *)
(* the array is full.                                                      *)
(***************************************************************************)
EXTENDS Integers, Sequences, SequencesExt, FiniteSets

CONSTANTS
  Names,             \* group names (valid: non-empty, <= 128 bytes)
  SourceIds,         \* source ids (valid: non-empty, <= 128 bytes)
  Requesters,        \* requester ids of GroupReadRequest
  RequesterTimeout,  \* NewManager(s, requesterTimeout), in clock ticks
  MaxTime,           \* bound on the clock
  MaxGroupSources    \* bound on the length of a group's source list

ASSUME RequesterTimeout \in Nat \ {0}
ASSUME MaxTime \in Nat /\ MaxGroupSources \in Nat \ {0}

VARIABLES groups, now, storageSources, storageRequesters, groupResp

vars == <<groups, now, storageSources, storageRequesters, groupResp>>

NoRequesters == [r \in {} |-> 0]

NoResp == [phase |-> "none"]

(* The zero value of a string: what a new backing array holds. *)
Zero == ""

(* append's new capacity when the backing array is full (growslice). *)
Grow(c) == IF c = 0 THEN 1 ELSE 2 * c

(***************************************************************************)
(* A pending Group response of group n sees every write into the backing  *)
(* array it shares, arr being the array's new contents; once the group    *)
(* moves to a new array or is deleted, the response keeps the old one.     *)
(***************************************************************************)
Written(n, arr) ==
  IF groupResp.phase = "pending" /\ groupResp.name = n /\ groupResp.live
    THEN [groupResp EXCEPT !.array = arr]
    ELSE groupResp

Abandoned(n) ==
  IF groupResp.phase = "pending" /\ groupResp.name = n
    THEN [groupResp EXCEPT !.live = FALSE]
    ELSE groupResp

(***************************************************************************)
(* AddToGroup: create the group if it is unknown, append the source id to *)
(* its list (even if already listed) and tell the storage to fetch it.     *)
(* Requests with an empty or over-long name or source id are rejected      *)
(* before the lock; they change nothing and are not enumerated.            *)
(***************************************************************************)
AddToGroup(n, sid) ==
  LET gi   == IF n \in DOMAIN groups THEN groups[n]
              ELSE [sourceIDs |-> <<>>, spare |-> <<>>, requesterIDs |-> NoRequesters]
      len  == Len(gi.sourceIDs)
      ids  == Append(gi.sourceIDs, sid)
      rest == IF gi.spare # <<>> THEN Tail(gi.spare)
              ELSE [i \in 1..Grow(len) - len - 1 |-> Zero]
  IN  /\ len < MaxGroupSources
      /\ groups' = [x \in DOMAIN groups \cup {n} |->
                      IF x = n THEN [gi EXCEPT !.sourceIDs = ids, !.spare = rest]
                               ELSE groups[x]]
      /\ groupResp' = IF gi.spare # <<>> THEN Written(n, ids \o rest) ELSE Abandoned(n)
      /\ storageSources' = [storageSources EXCEPT ![n, sid] = @ + 1]
      /\ UNCHANGED <<now, storageRequesters>>

(* Mutant of RemoveSource: s.Remove is called whether or not the id was found. *)
RemoveSourceAlways(gi, n, sid) ==
  LET i == SelectInSeq(gi.sourceIDs, LAMBDA x : x = sid)
  IN  [list |-> IF i = 0 THEN gi.sourceIDs ELSE RemoveAt(gi.sourceIDs, i),
       removed |-> TRUE]

(***************************************************************************)
(* The loop of RemoveFromGroup: drop the first occurrence of the source id *)
(* and, only if one was found, tell the storage to stop fetching it.       *)
(***************************************************************************)
RemoveSource(gi, n, sid) ==
  LET i == SelectInSeq(gi.sourceIDs, LAMBDA x : x = sid)
  IN  [list |-> IF i = 0 THEN gi.sourceIDs ELSE RemoveAt(gi.sourceIDs, i),
       removed |-> i # 0]

(***************************************************************************)
(* RemoveFromGroup: a nop for an unknown group; otherwise remove the       *)
(* source and delete the group once its list is empty.  Its requesters go  *)
(* with it; the storage is not told.  append(s[:i], s[i+1:]...) shifts the *)
(* later ids down in the same backing array and leaves the last slot as   *)
(* it was.                                                                 *)
(***************************************************************************)
RemoveFromGroup(n, sid) ==
  /\ n \in DOMAIN groups
  /\ LET gi    == groups[n]
         r     == RemoveSource(gi, n, sid)
         spare == IF Len(r.list) < Len(gi.sourceIDs)
                    THEN <<Last(gi.sourceIDs)>> \o gi.spare ELSE gi.spare
     IN  /\ groups' = IF r.list = <<>>
                        THEN [x \in DOMAIN groups \ {n} |-> groups[x]]
                        ELSE [groups EXCEPT ![n].sourceIDs = r.list, ![n].spare = spare]
         /\ groupResp' = IF r.list = <<>> THEN Abandoned(n)
                         ELSE Written(n, r.list \o spare)
         /\ storageSources' = IF r.removed
                                THEN [storageSources EXCEPT ![n, sid] = @ - 1]
                                ELSE storageSources
  /\ UNCHANGED <<now, storageRequesters>>

(* Mutant of ExpiredRequesters: a requester survives at exactly the timeout. *)
ExpiredRequestersLate(reqs, t) ==
  {k \in DOMAIN reqs : t - reqs[k] > RequesterTimeout}

(* The requesters the expiry loop of Read deletes: time.Since(v) >= timeout. *)
ExpiredRequesters(reqs, t) ==
  {k \in DOMAIN reqs : t - reqs[k] >= RequesterTimeout}

(* Mutant of Announce: AddRequester's arguments are swapped. *)
AnnounceSwapped(reqs, n, r) == IF r \in DOMAIN reqs THEN {} ELSE {<<r, n>>}

(* Mutant of Announce: the check for an unknown requester is inverted. *)
AnnounceInverted(reqs, n, r) == IF r \in DOMAIN reqs THEN {<<n, r>>} ELSE {}

(* m.s.AddRequester is called only for a requester the group does not know. *)
Announce(reqs, n, r) == IF r \in DOMAIN reqs THEN {} ELSE {<<n, r>>}

(***************************************************************************)
(* Read: NotFound for an unknown group.  Otherwise a requester the group   *)
(* does not know is announced to the storage, its last read time is set    *)
(* to now, and every requester of the group whose last read is at least   *)
(* requesterTimeout old is deleted and removed from the storage.  The      *)
(* storage Get that follows only reads.                                    *)
(***************************************************************************)
Read(n, r) ==
  /\ n \in DOMAIN groups
  /\ LET reqs    == groups[n].requesterIDs
         touched == [k \in DOMAIN reqs \cup {r} |->
                       IF k = r THEN now ELSE reqs[k]]
         gone    == ExpiredRequesters(touched, now)
         added   == Announce(reqs, n, r)
     IN  /\ groups' = [groups EXCEPT ![n].requesterIDs =
                         [k \in DOMAIN touched \ gone |-> touched[k]]]
         /\ storageRequesters' =
              (storageRequesters \cup added) \ {<<n, k>> : k \in gone}
  /\ UNCHANGED <<now, storageSources, groupResp>>

(***************************************************************************)
(* Group, under the read lock: the response's SourceIds is a.sourceIDs     *)
(* itself, the group's slice header and so its backing array, not a copy;  *)
(* an unknown group gives a nil slice.  The requester ids are copied.      *)
(* atCall keeps the list as it was under the lock.                         *)
(***************************************************************************)
Group(n) ==
  /\ groupResp = NoResp
  /\ LET gi == IF n \in DOMAIN groups THEN groups[n]
              ELSE [sourceIDs |-> <<>>, spare |-> <<>>]
     IN  groupResp' = [phase |-> "pending", name |-> n, live |-> n \in DOMAIN groups,
                       len |-> Len(gi.sourceIDs), atCall |-> gi.sourceIDs,
                       array |-> gi.sourceIDs \o gi.spare]
  /\ UNCHANGED <<groups, now, storageSources, storageRequesters>>

(* The ids a pending response carries: the first len entries of its       *)
(* backing array as they are now.                                          *)
Sent(resp) == SubSeq(resp.array, 1, resp.len)

(* gRPC marshals the response after Group has returned and released the   *)
(* lock: it reads Sent(groupResp), and the response is gone.               *)
MarshalGroupResponse ==
  /\ groupResp.phase = "pending"
  /\ groupResp' = NoResp
  /\ UNCHANGED <<groups, now, storageSources, storageRequesters>>

(* The clock advances. *)
Tick ==
  /\ now < MaxTime
  /\ now' = now + 1
  /\ UNCHANGED <<groups, storageSources, storageRequesters, groupResp>>

Init ==
  /\ groups = [n \in {} |-> 0]
  /\ now = 0
  /\ storageSources = [p \in Names \X SourceIds |-> 0]
  /\ storageRequesters = {}
  /\ groupResp = NoResp

Next ==
  \/ \E n \in Names, sid \in SourceIds : AddToGroup(n, sid)
  \/ \E n \in Names, sid \in SourceIds : RemoveFromGroup(n, sid)
  \/ \E n \in Names, r \in Requesters : Read(n, r)
  \/ \E n \in Names : Group(n)
  \/ MarshalGroupResponse
  \/ Tick

Spec == Init /\ [][Next]_vars

-----------------------------------------------------------------------------
TypeOK ==
  /\ DOMAIN groups \subseteq Names
  /\ \A n \in DOMAIN groups :
       /\ groups[n].sourceIDs \in Seq(SourceIds)
       /\ groups[n].spare \in Seq(SourceIds \cup {Zero})
       /\ DOMAIN groups[n].requesterIDs \subseteq Requesters
       /\ \A k \in DOMAIN groups[n].requesterIDs :
            groups[n].requesterIDs[k] \in 0..MaxTime
  /\ now \in 0..MaxTime
  /\ storageSources \in [Names \X SourceIds -> Int]
  /\ storageRequesters \subseteq Names \X Requesters

(* How often sid is listed in group n (0 for an unknown group). *)
Listed(n, sid) ==
  IF n \in DOMAIN groups
    THEN Len(SelectSeq(groups[n].sourceIDs, LAMBDA x : x = sid))
    ELSE 0

(* The requesters the manager tracks for group n. *)
Tracked(n) == IF n \in DOMAIN groups THEN DOMAIN groups[n].requesterIDs ELSE {}

(***************************************************************************)
(* The storage is told to fetch a source for a group exactly as often as   *)
(* the group lists it: every Add has its Remove when, and only when, an    *)
(* occurrence leaves the list, across any sequence of adds and removes.    *)
(***************************************************************************)
StorageSourcesMatchGroups ==
  \A n \in Names, sid \in SourceIds : storageSources[n, sid] = Listed(n, sid)

(***************************************************************************)
(* Every requester the manager tracks for a group has been announced to   *)
(* the storage and not withdrawn, so the storage shares the group's data   *)
(* with every live reader.                                                 *)
(***************************************************************************)
TrackedRequestersKnown ==
  \A n \in DOMAIN groups : \A k \in Tracked(n) : <<n, k>> \in storageRequesters

(***************************************************************************)
(* After a Read of a group, no requester of that group is older than the   *)
(* timeout ("Check for expired requesters").                               *)
(***************************************************************************)
ReadExpiresStale ==
  [][\A n \in DOMAIN groups' :
       (n \in DOMAIN groups /\ groups'[n].requesterIDs # groups[n].requesterIDs)
         => \A k \in Tracked(n)' :
              now' - groups'[n].requesterIDs[k] < RequesterTimeout]_vars

(***************************************************************************)
(* The storage never holds a requester the manager has forgotten: every   *)
(* requester announced to the storage is either still tracked (so a later *)
(* Read expires it) or has been removed.                                   *)
(***************************************************************************)
NoPhantomRequesters ==
  \A p \in storageRequesters : p[2] \in Tracked(p[1])

(***************************************************************************)
(* A Group response sends the group's source ids as they were when Group   *)
(* held the lock, not a list the group never had: the ids gRPC marshals   *)
(* after the handler returned are those of the call, whatever             *)
(* AddToGroup and RemoveFromGroup did to the group in between.             *)
(***************************************************************************)
GroupResponseIsSnapshot ==
  [][MarshalGroupResponse => Sent(groupResp) = groupResp.atCall]_vars

=============================================================================
