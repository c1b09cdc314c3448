----------------------------- MODULE CapiListing -----------------------------
(***************************************************************************)
(* The paginated listings of log-cache's CAPI client                       *)
(* (src/internal/auth/capi_client.go).  AvailableSourceIDs lists the       *)
(* guids of every app and then of every service instance the token sees;   *)
(* GetRelatedSourceIds lists the apps with the given names and groups      *)
(* their guids by name.  Both go through doPaginatedResourceRequest, which *)
(* GETs one page at a time and follows pagination.next.href until a page   *)
(* has none; any failed page makes the whole listing fail.                 *)
(*                                                                         *)
(* Each page request is one step, so Cloud Controller may change what the  *)
(* token sees between two pages of one call.  Cloud Controller pages its   *)
(* lists by offset, in guid order, PerPage resources a page.  The token is *)
(* fixed; what it sees is the state of Cloud Controller.                   *)
(*  apps, services  the app and service instance guids the token sees      *)
(*  call            the listing in progress, or Idle                       *)
(*  result          the last value a listing returned, with the op, the    *)
(*                  names asked, Cloud Controller's state when it returned *)
(*                  and whether that state held throughout the call        *)
(*  changes         how many times Cloud Controller changed                *)
(***************************************************************************)
EXTENDS Integers, Sequences, SequencesExt, FiniteSets

CONSTANTS
  AppGuids,      \* app guids (numbers, in Cloud Controller's order)
  ServiceGuids,  \* service instance guids
  AppName,       \* AppName[g]: the name of app g
  Names,         \* names passed to GetRelatedSourceIds
  PerPage,       \* per_page (5000 in the code)
  MaxChanges     \* bound on Cloud Controller changes

VARIABLES apps, services, call, result, changes

vars == <<apps, services, call, result, changes>>

Idle == [op |-> "idle"]

(* The resources the current request lists: the apps, those of the asked  *)
(* names, or the service instances, in Cloud Controller's order.           *)
Listed(c) ==
  SetToSortSeq(IF c.ty = "service_instances" THEN services
               ELSE {g \in apps : c.op = "available" \/ AppName[g] \in c.names}, <)

(* Page c.page of that list, and whether the response carries a next href. *)
Page(c) ==
  LET all == Listed(c)
      lo  == (c.page - 1) * PerPage + 1
      hi  == Min({c.page * PerPage, Len(all)})
  IN  [items |-> IF lo > hi THEN <<>> ELSE SubSeq(all, lo, hi),
       next  |-> c.page * PerPage < Len(all)]

(* Mutant of GuidSets: each resource replaces the guids of its name. *)
GuidSetsLastOnly(acc) ==
  [n \in {AppName[acc[i]] : i \in 1..Len(acc)} |->
     <<Last(SelectSeq(acc, LAMBDA g : AppName[g] = n))>>]

(* guidSets[resource.Name] = append(guidSets[resource.Name], resource.Guid) *)
GuidSets(acc) ==
  [n \in {AppName[acc[i]] : i \in 1..Len(acc)} |->
     SelectSeq(acc, LAMBDA g : AppName[g] = n)]

(* A listing returns val; the call ends. *)
Return(val) ==
  /\ result' = [op |-> call.op, names |-> call.names, val |-> val,
                apps |-> apps, services |-> services, stable |-> call.stable]
  /\ call' = Idle

(* What a failed listing returns: nil ([] for AvailableSourceIDs, an empty *)
(* map for GetRelatedSourceIds).                                           *)
FailedValue == <<>>

(* AvailableSourceIDs: list the apps first. *)
AvailableSourceIDs ==
  /\ call = Idle
  /\ call' = [op |-> "available", ty |-> "apps", names |-> {}, page |-> 1,
              acc |-> <<>>, appIDs |-> <<>>, stable |-> TRUE]
  /\ UNCHANGED <<apps, services, result, changes>>

(* GetRelatedSourceIds: no names returns an empty map with no request;     *)
(* otherwise list the apps of those names.                                 *)
GetRelatedSourceIds(ns) ==
  /\ call = Idle
  /\ IF ns = {}
       THEN /\ result' = [op |-> "related", names |-> ns, val |-> <<>>,
                          apps |-> apps, services |-> services, stable |-> TRUE]
            /\ UNCHANGED call
       ELSE /\ call' = [op |-> "related", ty |-> "apps", names |-> ns, page |-> 1,
                        acc |-> <<>>, appIDs |-> <<>>, stable |-> TRUE]
            /\ UNCHANGED result
  /\ UNCHANGED <<apps, services, changes>>

(* Mutant of ListedAll: sourceIDsForResourceType's result is dropped when  *)
(* the service instances are listed, and only their guids are returned.   *)
ListedAllServicesOnly(acc) ==
  IF call.op = "related" THEN Return(GuidSets(acc))
  ELSE IF call.ty = "apps"
    THEN /\ call' = [call EXCEPT !.ty = "service_instances", !.page = 1,
                                 !.acc = <<>>, !.appIDs = acc]
         /\ UNCHANGED result
  ELSE Return(acc)

(***************************************************************************)
(* The last page of a resource type was read: GetRelatedSourceIds returns  *)
(* the guids grouped by name; AvailableSourceIDs goes on to the service   *)
(* instances after the apps, and returns append(appIDs, serviceIDs...).    *)
(***************************************************************************)
ListedAll(acc) ==
  IF call.op = "related" THEN Return(GuidSets(acc))
  ELSE IF call.ty = "apps"
    THEN /\ call' = [call EXCEPT !.ty = "service_instances", !.page = 1,
                                 !.acc = <<>>, !.appIDs = acc]
         /\ UNCHANGED result
  ELSE Return(call.appIDs \o acc)

(***************************************************************************)
(* One doResourceRequest of doPaginatedResourceRequest.  A failed request, *)
(* a status other than 200, an undecodable body or a next href url.Parse  *)
(* rejects is an error: the listing returns nil (AvailableSourceIDs, for  *)
(* both types) or an empty map.  Otherwise the page's resources are       *)
(* appended; with a next href the loop asks for the next page.             *)
(***************************************************************************)
DoResourceRequest ==
  /\ call # Idle
  /\ \E ok \in BOOLEAN :
       IF ~ok THEN Return(FailedValue)
       ELSE LET p == Page(call)
                acc == call.acc \o p.items
            IN  IF p.next
                  THEN /\ call' = [call EXCEPT !.page = @ + 1, !.acc = acc]
                       /\ UNCHANGED result
                  ELSE ListedAll(acc)
  /\ UNCHANGED <<apps, services, changes>>

(* Cloud Controller creates or deletes an app or a service instance the    *)
(* token sees, possibly between two pages of a call.                       *)
ChangeCC(g) ==
  /\ changes < MaxChanges
  /\ changes' = changes + 1
  /\ apps' = IF g \in AppGuids THEN SymDiff(apps, {g}) ELSE apps
  /\ services' = IF g \in ServiceGuids THEN SymDiff(services, {g}) ELSE services
  /\ call' = IF call = Idle THEN call ELSE [call EXCEPT !.stable = FALSE]
  /\ UNCHANGED result

Init ==
  /\ apps \in SUBSET AppGuids
  /\ services \in SUBSET ServiceGuids
  /\ call = Idle
  /\ result = [op |-> "none"]
  /\ changes = 0

Next ==
  \/ AvailableSourceIDs
  \/ \E ns \in SUBSET Names : GetRelatedSourceIds(ns)
  \/ DoResourceRequest
  \/ \E g \in AppGuids \cup ServiceGuids : ChangeCC(g)

Spec == Init /\ [][Next]_vars

-----------------------------------------------------------------------------
(***************************************************************************)
(* AvailableSourceIDs never returns a partial list: if Cloud Controller   *)
(* did not change during the call, it returns nil (some page failed) or   *)
(* the guids of every app and then of every service instance the token    *)
(* sees, each once, across however many pages they take.                   *)
(***************************************************************************)
AvailableNilOrComplete ==
  (result.op = "available" /\ result.stable) =>
    result.val \in {<<>>, SetToSortSeq(result.apps, <) \o SetToSortSeq(result.services, <)}

(***************************************************************************)
(* GetRelatedSourceIds, if Cloud Controller did not change during the      *)
(* call, returns an empty map or maps exactly the asked names that have    *)
(* apps to all the guids of the apps of that name, in guid order.          *)
(***************************************************************************)
RelatedNilOrExact ==
  (result.op = "related" /\ result.stable) =>
    LET named == {g \in result.apps : AppName[g] \in result.names}
    IN  result.val \in {<<>>, [n \in {AppName[g] : g \in named} |->
                                 SetToSortSeq({g \in named : AppName[g] = n}, <)]}

=============================================================================
