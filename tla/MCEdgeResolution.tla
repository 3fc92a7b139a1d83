-------------------------- MODULE MCEdgeResolution --------------------------
(* Instances of EdgeResolution for TLC: two names, one import path.        *)
EXTENDS EdgeResolution

CONSTANTS a, b, lib

Plain(d, u) == [defs |-> d, sites |-> {<<n, NoImport>> : n \in u}]

(* A caller, a callee, a file that is both, and one that imports.          *)
MCContents ==
  {Plain({}, {a}), Plain({a}, {}), Plain({a, b}, {a}),
   [defs |-> {b}, sites |-> {<<a, lib>>, <<b, NoImport>>}]}
MCSmall == {Plain({}, {a}), Plain({a}, {})}

(* lib is probed as file 3, and matches file 2 by its directory.           *)
MCProbe(i, f) == <<3>>
MCNear(i, f) == {2}
=============================================================================
