------------------------------ MODULE MCReadPlan ------------------------------
(* NamedWrite and ReadPlan for TLC: words that touch, overlap, leave a gap  *)
(* and reach the limits, 32-bit values, bits on both sides of a bank's end, *)
(* values that are read alone between others, timers, a second family, a   *)
(* read-only one, and addresses that are refused.                          *)
EXTENDS NamedWrite

At(type, number, dtype) ==
    [type |-> type, number |-> number, dtype |-> dtype, bit |-> 0]

MCAddresses ==
    {At("DM", 0, "U"), At("DM", 0, "D"), At("DM", 1, "F"), At("DM", 2, "D"),
     At("DM", 1, "COMMENT"), At("DM", 3, "BIT_IN_WORD"), At("DM", 4, "L"),
     At("EM", 1, "U"),
     At("Z", 1, "U"), At("Z", 3, "S"), At("Z", 2, "U"), At("Z", 3, "D"),
     At("T", 0, "D"), At("T", 1, "D"), At("AT", 0, "D"),
     At("R", 15, "BIT"), At("R", 100, "BIT"), At("R", 101, "BIT"),
     At("R", 0, "U"), At("R", 0, "D"), At("R", 16, "BIT"), At("CTH", 0, "D")}
=============================================================================
