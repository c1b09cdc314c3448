\* Every subset of five envelopes read by 32 queries: both metrics, with and
\* without source_id, every set of equality matchers, two windows.
CONSTANTS
  CharOrder <- MCCharOrder
  WordChars <- MCWordChars
  LeadChars <- MCLeadChars
  Envelopes <- MCEnvelopes
  Queries <- MCQueries
  Interval = 2
  SeekTimes = {1, 4}
SPECIFICATION Spec
INVARIANT SelectReturnsMatchingSeries
INVARIANT SeekLandsOnFirstAtOrAfter
