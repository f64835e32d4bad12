---------------------------- MODULE DeviceAddress ----------------------------
(***************************************************************************)
(* Device families of the Host Link protocol and their numbers (device.py). *)
(* An address is a family and a number; its text is left out.              *)
(***************************************************************************)
EXTENDS Integers

CONSTANTS
    OrdinaryLimit,        \* devices that one command reaches (1000 in the code)
    TmLimit,              \* the same for family TM (512)
    ZLimit                \* and for family Z (12)

\* A value may take two words, but for those of Z.
ASSUME LimitAssumption ==
    /\ OrdinaryLimit \in Nat \ 0..1 /\ TmLimit \in Nat \ 0..1
    /\ ZLimit \in Nat \ {0}

BIT_BANK_DEVICE_TYPES == {"R", "MR", "LR", "CR"}
DIRECT_BIT_DEVICE_TYPES ==
    BIT_BANK_DEVICE_TYPES \cup {"B", "VB", "X", "Y", "M", "L"}
NATIVE_32BIT_DEVICE_TYPES ==
    {"T", "TC", "TS", "C", "CC", "CS", "CTH", "CTC", "Z", "AT"}
\* The families whose default format is ".U".
WORD_DEVICE_TYPES ==
    {"DM", "EM", "FM", "ZF", "W", "TM", "Z", "CM", "VM", "D", "E", "F"}
FLOAT32_ELIGIBLE_DEVICE_TYPES == WORD_DEVICE_TYPES \ NATIVE_32BIT_DEVICE_TYPES
RDC_DEVICE_TYPES ==
    (DIRECT_BIT_DEVICE_TYPES \ {"VB"}) \cup (WORD_DEVICE_TYPES \ {"VM"})
        \cup {"T", "C", "CTH", "CTC"}
DeviceTypes ==
    DIRECT_BIT_DEVICE_TYPES \cup NATIVE_32BIT_DEVICE_TYPES \cup WORD_DEVICE_TYPES

(* R, MR, LR and CR count in banks of 16 bits: after 15 comes 100.         *)
bit_bank_logical_number(n) == (n \div 100) * 16 + (n % 100)
bit_bank_number_from_logical(n) == (n \div 16) * 100 + (n % 16)
ValidNumber(type, n) == type \in BIT_BANK_DEVICE_TYPES => n % 100 <= 15

(* The place of a device among those of its family, as the PLC counts.     *)
Place(type, n) ==
    IF type \in BIT_BANK_DEVICE_TYPES THEN bit_bank_logical_number(n) ELSE n

(* How many devices one value of a format takes.                           *)
SpanWidth(type, format) ==
    IF type \in DIRECT_BIT_DEVICE_TYPES
      THEN IF format \in {"U", "S", "H"} THEN 16
           ELSE IF format \in {"D", "L"} THEN 32 ELSE 1
      ELSE IF format \in {"D", "L"} /\ type \notin NATIVE_32BIT_DEVICE_TYPES
           THEN 2 ELSE 1

(* The largest count of an RDS command of single words or bits.            *)
CountLimit(type) ==
    CASE type = "TM" -> TmLimit
      [] type = "Z" -> ZLimit
      [] OTHER -> OrdinaryLimit
=============================================================================
