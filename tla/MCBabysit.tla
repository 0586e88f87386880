------------------------------ MODULE MCBabysit ------------------------------
(***************************************************************************)
(* TLC instances of Babysit.  Only names that normalize_symbols could not  *)
(* take apart reach the manager in the compact form that SpoofHunter and   *)
(* the ticker use; every other symbol is registered in the ccxt form.      *)
(***************************************************************************)
EXTENDS Babysit

CONSTANTS long, other, nobody, compact, swap

\* A LONG position, a SHORT one without an entry price and, in the symbol of
\* the first, one of side NONE.
ThreePids   == {long, other, nobody}
ThreeSymbol == [p \in ThreePids |-> compact]
ThreeSide   == [p \in ThreePids |->
                  CASE p = long -> "LONG" [] p = other -> "SHORT" [] OTHER -> "NONE"]
ThreePriced == {long, nobody}
Compact     == {compact}

OnePid    == {long}
OneSymbol == [p \in OnePid |-> swap]
OneSide   == [p \in OnePid |-> "LONG"]
=============================================================================
