--------------------------- MODULE MCRegistration ---------------------------
(* Small instances of Registration: two data planes, one control plane. *)
EXTENDS Registration

CONSTANTS east, west, control, e1, e2, kube, ctxEast, ctxWest, ctxControl, n1, n2

Kubeconfigs == [f \in Path |-> [c \in Context |->
    CASE c = ctxEast -> east [] c = ctxWest -> west [] OTHER -> control]]

Register(src, dst, ctx, name) ==
    [srcPath |-> src, dstPath |-> dst, srcContext |-> ctx, dstContext |-> ctxControl,
     name |-> name, override |-> NoOverride]

\* Two data planes whose contexts clean up to the same name.
TwoPlanes == [e \in Command |->
    IF e = e1 THEN Register(NoPath, NoPath, ctxEast, n1)
              ELSE [Register(kube, NoPath, ctxWest, n1) EXCEPT !.override = west]]
\* One data plane registered by two commands at a time.
SamePlane == [e \in Command |-> Register(NoPath, NoPath, ctxEast, IF e = e1 THEN n1 ELSE n2)]
\* Two contexts whose cleaned-up names are the same.
Collision == [e \in Command |->
    Register(NoPath, NoPath, IF e = e1 THEN ctxEast ELSE ctxWest, n1)]
\* The default kubeconfig once by default and once by its path.
SelfByPath == [e \in Command |-> Register(kube, NoPath, ctxControl, n1)]
SelfByName == [e \in Command |-> Register(NoPath, NoPath, ctxControl, n1)]
=============================================================================
