SPECIFICATION Spec
CONSTANTS
  SavedRuns <- MCRuns
  Damage = {}
  Builds = {"neither"}
INVARIANT OkMeansLoaded
