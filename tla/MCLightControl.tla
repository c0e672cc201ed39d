------------------------------ MODULE MCLightControl ------------------------------
EXTENDS LightControl

On(b) == [brightness |-> b, power |-> 1]
Off == [brightness |-> 2, power |-> 0]

\* Lights at full brightness; the same, and one that the user wants off, so that
\* it is on only if the program has switched it on.
Full == [d \in Devices |-> {On(2)}]
OneOff == [d \in Devices |-> IF d = 1 THEN {Off} ELSE {On(2)}]

FullOn == On(2)

\* Theater lighting: one step darker than what the user has, and on.
Theater == <<On(1)>>
==============================================================================
