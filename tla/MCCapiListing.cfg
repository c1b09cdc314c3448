\* Three apps (two named "web") and two service instances, one resource a
\* page, so that every listing takes several pages; two Cloud Controller
\* changes, which can fall between two pages of one call.
CONSTANTS
  AppGuids <- MCAppGuids
  ServiceGuids <- MCServiceGuids
  AppName <- MCAppName
  Names <- MCNames
  PerPage = 1
  MaxChanges = 2
SPECIFICATION Spec
INVARIANT AvailableNilOrComplete
INVARIANT RelatedNilOrExact
