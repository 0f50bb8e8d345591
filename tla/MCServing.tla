----------------------------- MODULE MCServing -----------------------------
(* Serving with the installations its runs look at.                        *)
EXTENDS Serving

CONSTANTS m1, m2, pa, pb

Conf(id, path, enabled, loaded, connector) ==
    [id |-> id, path |-> path, enabled |-> enabled, loaded |-> loaded,
     connector |-> connector]

Installed(a, b) == [m \in Mod |-> IF m = m1 THEN a ELSE b]

Dll(id, path) == Conf(id, path, TRUE, TRUE, "dll")

\* Two mods that want one path, with ids in either order and with one id; two
\* with a path each; one disabled, broken, or without a connector; a net mod.
SomeInstallations ==
    {Installed(Dll(1, pa), Dll(2, pa)), Installed(Dll(2, pa), Dll(1, pa)),
     Installed(Dll(1, pa), Dll(1, pa)), Installed(Dll(1, pa), Dll(2, pb)),
     Installed(Dll(1, pa), Conf(2, pb, FALSE, TRUE, "dll")),
     Installed(Dll(1, pa), Conf(2, pa, TRUE, FALSE, "none")),
     Installed(Dll(1, pa), Conf(2, pb, FALSE, FALSE, "none")),
     Installed(Dll(2, pa), Conf(1, pb, TRUE, TRUE, "none")),
     Installed(Dll(1, pa), Conf(2, pb, TRUE, TRUE, "net"))}

NetInstallations ==
    {Installed(Conf(1, a, TRUE, TRUE, "net"), Conf(2, b, TRUE, TRUE, "net")) :
        a \in Path, b \in Path}
=============================================================================
