----------------------------- MODULE MCFlagScan -----------------------------
(* Programs of a few instructions for FlagScan. *)
EXTENDS FlagScan

\* Conditions on V alone are kept out of the passing run (see the README on
\* EMIT_GetNZ00), and so is the fusion of ROL, SWAP and ROL.
MCInsns == {i \in InsnTable : i.reads # {"V"} /\ i.fuse \notin {"rol8", "swap"}}

MCFusions == {<<"move", "move">>, <<"move", "ext.l">>,
              <<"move", "ext.w", "ext.l">>, <<"ext.w", "ext.l">>}
=============================================================================
