\* Two envelopes per batch and a diode of two slots: four envelopes are
\* enough to fill the diode while the flusher is blocked in a call.
CONSTANTS
  DiodeSize = 2
  BatchSize = 2
  MaxPerSend = 2
  MaxSent = 4
SPECIFICATION Spec
INVARIANT TypeOK
INVARIANT EveryEnvelopeAccountedOnce
INVARIANT PeerReceivesInOrderLocalOnly
PROPERTY LinkRefined
\* Only the bound on MaxSent stops the system; the flusher then idles.
CHECK_DEADLOCK FALSE
