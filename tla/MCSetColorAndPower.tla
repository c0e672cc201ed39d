---------------------------- MODULE MCSetColorAndPower ----------------------------
EXTENDS SetColorAndPower

\* A dimmed state: brightness 0, so that the power level sent differs from
\* the power of the state.
OneTarget == {[brightness |-> 0, power |-> 1]}

\* A light at full brightness.
Full == {[brightness |-> 1, power |-> 1]}
==============================================================================
