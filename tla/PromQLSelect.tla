---------------------------- MODULE PromQLSelect ----------------------------
(***************************************************************************)
(* The storage side of log-cache's PromQL service                          *)
(* (src/internal/promql/promql.go): LogCacheQuerier.Select reads one       *)
(* source's counters, gauges and timers, keeps those whose tags carry the  *)
(* query's labels and whose sanitized name is the metric, truncates their  *)
(* timestamps to the interval and groups them into series with a           *)
(* seriesSetBuilder keyed by getSeriesID.  The engine's plumbing (Parse,   *)
(* InstantQuery, RangeQuery, the result conversions) is not modelled.      *)
(*                                                                         *)
(* Names, tag keys and tag values are strings: sequences of characters, so *)
(* that sanitizing and series ids are modelled by what they do.           *)
(*  stored   the source's envelopes, as the Read of the querier sees them  *)
(*  query    the last Select: metric, source_id given, label matchers,     *)
(*           the querier's [start, end]                                    *)
(*  result   its outcome: ok, and the set of series (labels, samples)      *)
(*  iter     the engine's iterator over one series of a result: its        *)
(*           samples, cur (-1 before the first Next) and, right after a    *)
(*           Seek, the time sought                                         *)
(***************************************************************************)
EXTENDS Integers, Sequences, SequencesExt, FiniteSets

CONSTANTS
  CharOrder,  \* the characters used, in byte order
  WordChars,  \* \w: letters, digits and '_'
  LeadChars,  \* [A-z_]: what a sanitized name may start with
  Envelopes,  \* envelopes of one source, with distinct timestamps
  Queries,    \* Select calls explored
  Interval,   \* l.interval (time.Second), in time units
  SeekTimes   \* times the engine passes to Seek

VARIABLES stored, query, result, iter

vars == <<stored, query, result, iter>>

Failed == [ok |-> FALSE, series |-> {}]

(* No iterator yet: the engine has not asked for a series of this result. *)
NoIter == [samples |-> <<>>, cur |-> -1, seeking |-> FALSE, sought |-> 0]

(* The position of a character in byte order. *)
Rank(c) == SelectInSeq(CharOrder, LAMBDA x : x = c)

(* Go string comparison, as sort.Strings uses it. *)
RECURSIVE StrLess(_, _)
StrLess(a, b) ==
  IF a = <<>> THEN b # <<>>
  ELSE IF b = <<>> THEN FALSE
  ELSE IF Head(a) = Head(b) THEN StrLess(Tail(a), Tail(b))
  ELSE Rank(Head(a)) < Rank(Head(b))

(***************************************************************************)
(* SanitizeMetricName: regexp `^[^A-z_]|[\W_]+?` replaced by "_": a first  *)
(* character outside A-z and '_', and any non-word character, becomes '_'. *)
(***************************************************************************)
SanitizeMetricName(n) ==
  [i \in 1..Len(n) |->
     IF (i = 1 /\ n[1] \notin LeadChars) \/ n[i] \notin WordChars THEN "_" ELSE n[i]]

(* hasLabels: every label of the query is a tag with that value. *)
HasLabels(tags, ls) == \A l \in ls : l.name \in DOMAIN tags /\ tags[l.name] = l.value

(* Mutant of GetSeriesID: the tag values are left out of the id. *)
GetSeriesIDKeysOnly(tags) ==
  LET keys == SetToSortSeq(DOMAIN tags, StrLess)
  IN  FlattenSeq([i \in 1..Len(keys) |-> <<"-">> \o keys[i]])

(* getSeriesID: "-" + k + "-" + v for every tag, keys in sorted order. *)
GetSeriesID(tags) ==
  LET keys == SetToSortSeq(DOMAIN tags, StrLess)
  IN  FlattenSeq([i \in 1..Len(keys) |->
                    <<"-">> \o keys[i] \o <<"-">> \o tags[keys[i]]])

(***************************************************************************)
(* seriesSetBuilder.add: the first envelope of a series id gives the       *)
(* series its tags; every sample is appended to the series of its id.     *)
(***************************************************************************)
Add(data, tags, s) ==
  LET id == GetSeriesID(tags)
  IN  IF id \in DOMAIN data
        THEN [data EXCEPT ![id].samples = Append(@, s)]
        ELSE (id :> [tags |-> tags, samples |-> <<s>>]) @@ data

(* The value Select takes from an envelope for the metric, if any: a       *)
(* counter's total, a timer's duration, or one of a gauge's values whose   *)
(* name sanitizes to the metric (checkMapForSanitizedMetricName ranges     *)
(* over a Go map, so which one is not determined).                         *)
Values(e, metric) ==
  CASE e.kind = "counter" ->
         IF SanitizeMetricName(e.name) = metric THEN {e.total} ELSE {}
    [] e.kind = "timer" ->
         IF SanitizeMetricName(e.name) = metric THEN {e.stop - e.start} ELSE {}
    [] e.kind = "gauge" ->
         {e.gauge[k] : k \in {k \in DOMAIN e.gauge : SanitizeMetricName(k) = metric}}
    [] OTHER -> {}  \* logs and events: Read does not return them

(* time.Unix(0, t).Truncate(l.interval) *)
Truncate(t) == t - (t % Interval)

(***************************************************************************)
(* The Read contract of the data reader: the envelopes of the source in    *)
(* [start, end) of the requested types, in ascending time order.           *)
(***************************************************************************)
Read(start, end) ==
  SetToSortSeq({e \in stored : /\ start <= e.ts /\ e.ts < end
                               /\ e.kind \in {"counter", "gauge", "timer"}},
               LAMBDA a, b : a.ts < b.ts)

(* The values Select can take from the kept envelopes, one for each, in    *)
(* order: the choice checkMapForSanitizedMetricName makes per gauge.       *)
RECURSIVE Picks(_, _)
Picks(keep, metric) ==
  IF keep = <<>> THEN {<<>>}
  ELSE {<<v>> \o rest : v \in Values(Head(keep), metric),
                        rest \in Picks(Tail(keep), metric)}

(* buildSeriesSet: one series per id, labelled with the tags it was given. *)
BuildSeriesSet(data) ==
  {[labels |-> data[id].tags, samples |-> data[id].samples] : id \in DOMAIN data}

(***************************************************************************)
(* Select: an error (passed to errf) without a source_id label or when     *)
(* Read fails; otherwise the series built from the batch read over         *)
(* [start - 1s, end).  pick chooses each gauge's value.  The engine reads  *)
(* the new set through new iterators.                                      *)
(***************************************************************************)
Select(q) ==
  /\ query' = q
  /\ \/ /\ ~q.hasSourceId
        /\ result' = Failed
     \/ /\ q.hasSourceId
        /\ \/ result' = Failed
           \/ LET batch == Read(q.start - Interval, q.end)
                  keep  == SelectSeq(batch, LAMBDA e :
                             HasLabels(e.tags, q.matchers) /\ Values(e, q.metric) # {})
              IN  \E pick \in Picks(keep, q.metric) :
                    LET step(data, i) ==
                             Add(data, keep[i].tags, [t |-> Truncate(keep[i].ts), v |-> pick[i]])
                        data == FoldLeft(step, [id \in {} |-> 0], [i \in 1..Len(keep) |-> i])
                    IN  result' = [ok |-> TRUE, series |-> BuildSeriesSet(data)]
  /\ iter' = NoIter
  /\ UNCHANGED stored

(* sort.Search(n, f): the smallest index in [i, j) at which f holds,      *)
(* by bisection; f is "samples[n].t >= t".                                 *)
RECURSIVE SearchFrom(_, _, _, _)
SearchFrom(ss, t, i, j) ==
  IF i >= j THEN i
  ELSE LET h == (i + j) \div 2
       IN  IF ~(ss[h + 1].t >= t) THEN SearchFrom(ss, t, h + 1, j)
                                  ELSE SearchFrom(ss, t, i, h)

(* Mutant of Seek: the search looks for a sample strictly after t. *)
SeekStrict(ss, t) ==
  LET RECURSIVE after(_, _)
      after(i, j) ==
        IF i >= j THEN i
        ELSE LET h == (i + j) \div 2
             IN  IF ~(ss[h + 1].t > t) THEN after(h + 1, j) ELSE after(i, h)
  IN  after(0, Len(ss))

(* concreteSeriesIterator.Seek: cur becomes the index sort.Search finds. *)
Seek(ss, t) == SearchFrom(ss, t, 0, Len(ss))

(* The engine takes a series of a successful Select and its Iterator(). *)
NewIterator(sr) ==
  /\ result.ok
  /\ sr \in result.series
  /\ iter' = [samples |-> sr.samples, cur |-> -1, seeking |-> FALSE, sought |-> 0]
  /\ UNCHANGED <<stored, query, result>>

(* Next: cur++; the engine stops calling it once it returned false. *)
IterNext ==
  /\ iter.cur < Len(iter.samples)
  /\ iter' = [iter EXCEPT !.cur = @ + 1, !.seeking = FALSE]
  /\ UNCHANGED <<stored, query, result>>

(* Seek(t) *)
IterSeek(t) ==
  /\ iter' = [iter EXCEPT !.cur = Seek(iter.samples, t), !.seeking = TRUE, !.sought = t]
  /\ UNCHANGED <<stored, query, result>>

Init ==
  /\ stored \in SUBSET Envelopes
  /\ query = CHOOSE q \in Queries : TRUE
  /\ result = Failed
  /\ iter = NoIter

Next ==
  \/ \E q \in Queries : Select(q)
  \/ \E sr \in result.series : NewIterator(sr)
  \/ IterNext
  \/ \E t \in SeekTimes : IterSeek(t)

Spec == Init /\ [][Next]_vars

-----------------------------------------------------------------------------
(* A label matcher as Prometheus defines it: "=" equal, "!=" not equal,    *)
(* an absent label counting as the empty string.                           *)
Matches(tags, m) ==
  LET v == IF m.name \in DOMAIN tags THEN tags[m.name] ELSE <<>>
  IN  IF m.type = "=" THEN v = m.value ELSE v # m.value

(* The envelopes the query selects, in time order. *)
Selected(q) ==
  SelectSeq(Read(q.start - Interval, q.end),
            LAMBDA e : (\A m \in q.matchers : Matches(e.tags, m))
                       /\ Values(e, q.metric) # {})

(***************************************************************************)
(* A successful Select returns one series per distinct tag set among the   *)
(* selected envelopes, labelled with those tags, holding exactly their     *)
(* samples in time order with truncated timestamps and a value the         *)
(* envelope carries for the metric: no two tag sets share a series, and   *)
(* every label matcher of the query holds for every series.               *)
(***************************************************************************)
SelectReturnsMatchingSeries ==
  result.ok =>
    LET sel == Selected(query)
    IN  /\ {s.labels : s \in result.series} = {sel[i].tags : i \in 1..Len(sel)}
        /\ Cardinality(result.series) = Cardinality({s.labels : s \in result.series})
        /\ \A s \in result.series :
             LET mine == SelectSeq(sel, LAMBDA e : e.tags = s.labels)
             IN  /\ Len(s.samples) = Len(mine)
                 /\ \A i \in 1..Len(mine) :
                      /\ s.samples[i].t = Truncate(mine[i].ts)
                      /\ s.samples[i].v \in Values(mine[i], query.metric)

(***************************************************************************)
(* Right after Seek(t), the iterator is at the first sample of the series *)
(* at or after t, or past the end if there is none.  sort.Search only     *)
(* finds it if the series' samples are in time order, which holds because *)
(* Read returns envelopes in ascending order, Truncate is monotone and    *)
(* add appends.                                                            *)
(***************************************************************************)
SeekLandsOnFirstAtOrAfter ==
  iter.seeking =>
    /\ \A i \in 1..iter.cur : iter.samples[i].t < iter.sought
    /\ iter.cur < Len(iter.samples) => iter.samples[iter.cur + 1].t >= iter.sought
=============================================================================
