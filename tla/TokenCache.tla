------------------------------ MODULE TokenCache ------------------------------
(***************************************************************************)
(* The authorization cache of the CAPI client of log-cache's CF auth proxy *)
(* (src/internal/auth/capi_client.go).  IsAuthorized is called by          *)
(* concurrent HTTP handlers: it looks up clientToken+sourceId in a         *)
(* sync.Map and, on a miss, asks Cloud Controller (HasApp, then            *)
(* HasService) and caches a positive answer with the time it arrived.  A   *)
(* goroutine started by NewCAPIClient wakes on every tick of               *)
(* time.Tick(cacheExpirationInterval) and deletes the entries at least one *)
(* interval old.                                                           *)
(*                                                                         *)
(* Tokens and source ids are strings, modelled as sequences of letters, so *)
(* that the cache key is their concatenation.                              *)
(*  cache      tokenCache: key -> the time its yes was stored             *)
(*  now        the clock, in ticks                                         *)
(*  nextTick   when time.Tick next fires                                   *)
(*  grants     the (token, source) pairs Cloud Controller lets read        *)
(*  req        each handler: Idle, or the pair it is asking CAPI about     *)
(***************************************************************************)
EXTENDS Integers, Sequences, FiniteSets, TLC

CONSTANTS
  Tokens,     \* client tokens (sequences of letters)
  SourceIds,  \* source ids (sequences of letters)
  Handlers,   \* concurrent HTTP handlers calling IsAuthorized
  Interval,   \* cacheExpirationInterval, in ticks
  MaxTime     \* bound on the clock

ASSUME Interval \in Nat \ {0} /\ MaxTime \in Nat

VARIABLES cache, now, nextTick, grants, req

vars == <<cache, now, nextTick, grants, req>>

Pairs == Tokens \X SourceIds

(* clientToken + sourceId *)
Key(t, s) == t \o s

Keys == {Key(p[1], p[2]) : p \in Pairs}

(* A handler with no IsAuthorized call in progress. *)
Idle == <<>>

(***************************************************************************)
(* IsAuthorized, first step: Load the key.  A hit answers true and         *)
(* changes nothing; a miss goes on to ask Cloud Controller.                *)
(***************************************************************************)
IsAuthorizedLoad(h, t, s) ==
  /\ req[h] = Idle
  /\ req' = IF Key(t, s) \in DOMAIN cache THEN req ELSE [req EXCEPT ![h] = <<t, s>>]
  /\ UNCHANGED <<cache, now, nextTick, grants>>

(***************************************************************************)
(* HasApp || HasService: a GET of /v3/apps/<id>, then of                   *)
(* /v3/service_instances/<id>, with the token; true on a 200.  A failed    *)
(* request or another status is false.                                     *)
(***************************************************************************)
HasAppOrService(t, s) == <<t, s>> \in grants

(***************************************************************************)
(* IsAuthorized, second step: CAPI answers; a yes is stored under the key  *)
(* with time.Now() (replacing what another handler stored meanwhile); the  *)
(* handler then returns the answer.                                        *)
(***************************************************************************)
IsAuthorizedCapi(h) ==
  /\ req[h] # Idle
  /\ LET t == req[h][1]
         s == req[h][2]
     IN  cache' = IF HasAppOrService(t, s)
                    THEN (Key(t, s) :> now) @@ cache
                    ELSE cache
  /\ req' = [req EXCEPT ![h] = Idle]
  /\ UNCHANGED <<now, nextTick, grants>>

(* Mutant of Expired: an entry exactly one interval old is kept. *)
ExpiredStrict(stored) == now - stored > Interval

(* time.Since(requestTime) >= c.cacheExpirationInterval *)
Expired(stored) == now - stored >= Interval

(***************************************************************************)
(* pruneTokens, on a tick: Range over the map, deleting expired entries.   *)
(* The pass is one step: an entry stored during the Range is younger than  *)
(* an interval and would be kept either way.                               *)
(***************************************************************************)
PruneTokens ==
  /\ now = nextTick
  /\ cache' = [k \in {k \in DOMAIN cache : ~Expired(cache[k])} |-> cache[k]]
  /\ nextTick' = nextTick + Interval
  /\ UNCHANGED <<now, grants, req>>

(* The clock advances; a due tick is delivered before time moves on. *)
Tick ==
  /\ now < nextTick
  /\ now < MaxTime
  /\ now' = now + 1
  /\ UNCHANGED <<cache, nextTick, grants, req>>

(* Cloud Controller grants or revokes a token's access to a source. *)
ChangeGrant(t, s) ==
  /\ grants' = IF <<t, s>> \in grants THEN grants \ {<<t, s>>}
                                      ELSE grants \cup {<<t, s>>}
  /\ UNCHANGED <<cache, now, nextTick, req>>

Init ==
  /\ cache = [k \in {} |-> 0]
  /\ now = 0
  /\ nextTick = Interval
  /\ grants \in SUBSET Pairs
  /\ req = [h \in Handlers |-> Idle]

Next ==
  \/ \E h \in Handlers, t \in Tokens, s \in SourceIds : IsAuthorizedLoad(h, t, s)
  \/ \E h \in Handlers : IsAuthorizedCapi(h)
  \/ PruneTokens
  \/ Tick
  \/ \E t \in Tokens, s \in SourceIds : ChangeGrant(t, s)

Spec == Init /\ [][Next]_vars

-----------------------------------------------------------------------------
(***************************************************************************)
(* A yes IsAuthorized answers from tokenCache was stored less than two     *)
(* intervals ago, so a revocation by Cloud Controller is honoured within   *)
(* two intervals: pruneTokens deletes an entry at the first tick at which  *)
(* it is a full interval old (>= at capi_client.go:263), whichever handler *)
(* stored it and whenever the Range runs between a Load and a Store.  It   *)
(* says nothing about which (token, source) the yes was given to: keys     *)
(* that concatenate alike share one entry.                                 *)
(***************************************************************************)
CachedYesRecent ==
  \A k \in DOMAIN cache : now - cache[k] < 2 * Interval

=============================================================================
