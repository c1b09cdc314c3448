\* A query whose only label matcher is j!="a".
CONSTANTS
  CharOrder <- MCCharOrder
  WordChars <- MCWordChars
  LeadChars <- MCLeadChars
  Envelopes <- MCEnvelopes
  Queries <- MCNotEqualQueries
  Interval = 2
  SeekTimes = {1, 4}
SPECIFICATION Spec
INVARIANT SelectReturnsMatchingSeries
