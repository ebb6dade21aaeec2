------------------------------- MODULE Installs -------------------------------
(***************************************************************************)
(* The commands of cli/src/main/kotlin/cplus/Main.kt that install          *)
(* toolchains and packages, over one project with its cplus.lock, and the  *)
(* user's storage of toolchains.                                           *)
(***************************************************************************)
EXTENDS Toolchains, Packages

vars == <<lock, pin, command, toolchainvars, packagevars>>

Init ==
    /\ ToolchainsInit /\ PackagesInit
    /\ command = [p \in Processes |-> Idle]

ToolchainCommand(p) == ToolchainStep(p) /\ UNCHANGED packagevars
PackageCommand(p) == PackageStep(p) /\ UNCHANGED toolchainvars
Upstream == (Publish \/ Republish) /\ UNCHANGED packagevars
User == (RemoveModule \/ RemoveDependency) /\ UNCHANGED toolchainvars

Next ==
    \/ \E p \in Processes : ToolchainCommand(p) \/ PackageCommand(p)
    \/ Upstream \/ User

Spec == Init /\ [][Next]_vars

\* SPEC.toolchains.md: ordinary installs stay reproducible. The lock does not lose
\* the release of a reference. (a write that is cut loses it)
PinsAreKept == [][\A r \in References : pin[r] # None => pin'[r] # None]_vars
===============================================================================
