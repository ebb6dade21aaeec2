------------------------------ MODULE MCInstalls ------------------------------
(***************************************************************************)
(* Sources of packages for TLC: two that are the same but for their name's *)
(* place in a cycle, a tree with an inner package, and one that is broken. *)
(***************************************************************************)
EXTENDS Installs

Ref(name, source) == [name |-> name, source |-> source]
Pkg(name, dependencies) == [name |-> name, dependencies |-> dependencies]

\* app needs lib and util; lib needs util, but an older one; loop needs back, which
\* needs loop; weak needs a source that is gone.
Sources ==
    [s \in {"app", "lib", "util", "util-old", "loop", "back", "weak"} |->
        CASE s = "app" -> Pkg(1, <<Ref(2, "lib"), Ref(3, "util")>>)
          [] s = "lib" -> Pkg(2, <<Ref(3, "util-old")>>)
          [] s \in {"util", "util-old"} -> Pkg(3, <<>>)
          [] s = "loop" -> Pkg(1, <<Ref(2, "back")>>)
          [] s = "back" -> Pkg(2, <<Ref(1, "loop")>>)
          [] s = "weak" -> Pkg(2, <<Ref(3, "gone")>>)]

Written == {Ref(1, "app"), Ref(1, "loop"), Ref(2, "lib"), Ref(2, "weak")}
NoneWritten == {}

UnsoundArchives == {<<2, 1>>}
===============================================================================
