CONSTANTS
  p1 = p1
  p2 = p2
  genuine = genuine
  patched = patched
  newer = newer
  Procs <- MCProcs
  Jobs <- MCJobs
  Generated <- MCGenerated
  RuntimeObjects <- MCRuntimeObjects
  DepArchives <- MCDepArchives
  Tools <- MCTools
  Pinned <- MCPinned
  Genuine = genuine
  HostCC = HostCC
  None = None
  Silent = {"runtime", "launcher"}
  Exclusive = TRUE
SPECIFICATION Spec
INVARIANTS ProductsAreFunctions ManifestNamesCompiler DepHashesReproducible ProductsAreFresh
CONSTRAINT OneFamily
SYMMETRY Symmetry
