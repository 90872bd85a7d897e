---------------------------- MODULE MCSyncDomain ----------------------------
(***************************************************************************)
(* The small instance of SyncDomain: one radio link is enough to fill a    *)
(* channel of two events; two holdovers let an expiry of the first meet    *)
(* the second, and a third lets a leaked timer meet another one.  The      *)
(* interface configurations differ in each criterion of the selection.     *)
(***************************************************************************)
EXTENDS SyncDomain

Source(ssm, ql, extended, priority, prefers) ==
    [ssm |-> ssm, ql |-> ql, extended |-> extended, priority |-> priority, prefers |-> prefers]

\* Next to the interfaces of the seed: no preference, a better priority, and no
\* use as a source.
MCSources == {
    Source(TRUE, "QL-PRC", "QL-PRTC", 10, FALSE),
    Source(TRUE, "QL-PRC", "none", 9, FALSE),
    Source(TRUE, "QL-DNU", "none", 1, TRUE) }
=============================================================================
