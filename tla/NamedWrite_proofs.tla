-------------------------- MODULE NamedWrite_proofs --------------------------
(***************************************************************************)
(* Theorems about NamedWrite, for every list of addresses with values and  *)
(* every limit.  The reads of the same list keep what ReadPlan_proofs says *)
(* of them, since a write leaves them alone.                               *)
(***************************************************************************)
EXTENDS NamedWrite, ReadPlan_proofs, SequenceTheorems

(* What a caller asks to be written.                                       *)
Wanted ==
  UNION {UNION {Asked(i, v) : v \in 1..counts[i]} : i \in DOMAIN entries}

(* The values of the list laid out one after another, each over d devices, *)
(* in one cell of each, from place n of a family on.                       *)
Laid(type, cell, n, d) ==
  {<<type, cell, n + (k - 1) * d + p - 1, Append(Values[k], p)>> :
      k \in DOMAIN Values, p \in 1..d}

Given ==
  /\ Len(entries) > 0
  /\ counts \in [DOMAIN entries -> Nat]
  /\ fits \in BOOLEAN

(* The conditions of WriteIsExact, from the moment the command exists.     *)
CommandInv ==
  /\ stage \in {"compiled", "sent"} /\ OneFamily => Written = Wanted
  /\ stage = "compiled" => (command.formats => fits)
  /\ stage = "sent" => fits

CallInv ==
  /\ TypeOK
  /\ Given
  /\ stage \in {"given", "snapshot", "compiled", "sent", "refused"}
  /\ stage = "snapshot" => ~Refused /\ helper = "write_named"
  /\ CommandInv
-----------------------------------------------------------------------------
(* The first entry exists, and every entry is an address.                  *)
LEMMA GivenFacts ==
  ASSUME TypeOK, Given
  PROVE  /\ Len(entries) \in Nat \ {0} /\ DOMAIN entries = 1..Len(entries)
         /\ 1 \in DOMAIN entries /\ First = entries[1]
         /\ First \in [type : DeviceTypes, number : Nat, dtype : Dtypes, bit : 0..15]
         /\ \A i \in DOMAIN entries :
              /\ entries[i] \in [type : DeviceTypes, number : Nat, dtype : Dtypes,
                                 bit : 0..15]
              /\ Place(entries[i].type, entries[i].number) \in Nat
              /\ counts[i] \in Nat
  <1>1. entries \in Seq(Addresses) /\ Len(entries) > 0
    BY DEF TypeOK, Given
  <1>2. Len(entries) \in Nat \ {0} /\ DOMAIN entries = 1..Len(entries)
    BY <1>1
  <1>3. \A i \in DOMAIN entries : entries[i] \in Addresses
    BY <1>1
  <1>4. \A i \in DOMAIN entries : Place(entries[i].type, entries[i].number) \in Nat
    BY <1>3, RequestFacts
  <1> QED BY <1>2, <1>3, <1>4, AddressAssumption DEF First, Given

(* A pair with one more component is a triple.                             *)
LEMMA AppendPair ==
  ASSUME NEW a, NEW b, NEW p
  PROVE  Append(<<a, b>>, p) = <<a, b, p>>
  <1> DEFINE S == {a, b, p}
  <1>1. <<a, b>> \in Seq(S) /\ Len(<<a, b>>) = 2 /\ p \in S
    OBVIOUS
  <1>2. <<a, b, p>> \in Seq(S) /\ Len(<<a, b, p>>) = 3
    OBVIOUS
  <1>3. /\ Append(<<a, b>>, p) \in Seq(S) /\ Len(Append(<<a, b>>, p)) = 3
        /\ Append(<<a, b>>, p)[1] = a /\ Append(<<a, b>>, p)[2] = b
        /\ Append(<<a, b>>, p)[3] = p
    BY <1>1
  <1>4. PICK q, r : q = Append(<<a, b>>, p) /\ r = <<a, b, p>>
    OBVIOUS
  <1>5. /\ q \in Seq(S) /\ Len(q) = 3 /\ q[1] = a /\ q[2] = b /\ q[3] = p
        /\ r \in Seq(S) /\ Len(r) = 3 /\ r[1] = a /\ r[2] = b /\ r[3] = p
    BY <1>2, <1>3, <1>4
  <1>6. \A i \in 1..3 : q[i] = r[i]
    BY <1>5
  <1>7. q = r
    BY <1>5, <1>6, SeqEqual
  <1> QED BY <1>4, <1>7

(* The values are the pairs of entry and position that were given.         *)
LEMMA ValuesFacts ==
  ASSUME TypeOK, Given
  PROVE  /\ Alone => /\ DOMAIN Values = 1..counts[1]
                     /\ \A k \in DOMAIN Values : Values[k] = <<1, k>>
         /\ ~Alone => /\ DOMAIN Values = DOMAIN entries
                      /\ \A k \in DOMAIN Values : Values[k] = <<k, 1>>
         /\ \E n \in Nat : DOMAIN Values = 1..n /\ Len(Values) = n
         /\ \A k \in DOMAIN Values : \A p :
              Append(Values[k], p) = <<Values[k][1], Values[k][2], p>>
  <1>1. /\ counts[1] \in Nat /\ DOMAIN entries = 1..Len(entries)
        /\ Len(entries) \in Nat
    BY GivenFacts
  <1>2. Alone => /\ DOMAIN Values = 1..counts[1]
                 /\ \A k \in DOMAIN Values : Values[k] = <<1, k>>
    BY DEF Values
  <1>3. ~Alone => /\ DOMAIN Values = DOMAIN entries
                  /\ \A k \in DOMAIN Values : Values[k] = <<k, 1>>
    BY DEF Values
  <1>4. \E n \in Nat : DOMAIN Values = 1..n
    BY <1>1, <1>2, <1>3
  <1>5. ASSUME NEW n \in Nat, DOMAIN Values = 1..n
        PROVE  Len(Values) = n
    BY <1>5
  <1>6. ASSUME NEW k \in DOMAIN Values, NEW p
        PROVE  Append(Values[k], p) = <<Values[k][1], Values[k][2], p>>
    <2>1. \E a, b : Values[k] = <<a, b>>
      BY <1>2, <1>3
    <2>2. PICK a, b : Values[k] = <<a, b>>
      BY <2>1
    <2>3. Values[k][1] = a /\ Values[k][2] = b
      BY <2>2
    <2> QED BY <2>2, <2>3, AppendPair
  <1> QED BY <1>2, <1>3, <1>4, <1>5, <1>6

(* What is in a layout.                                                    *)
LEMMA InLaid ==
  ASSUME NEW type, NEW cell, NEW n, NEW d, NEW x
  PROVE  x \in Laid(type, cell, n, d) <=>
           \E k \in DOMAIN Values : \E p \in 1..d :
             x = <<type, cell, n + (k - 1) * d + p - 1, Append(Values[k], p)>>
  <1>1. x \in {<<type, cell, n + (k - 1) * d + p - 1, Append(Values[k], p)>> :
                 k \in DOMAIN Values, p \in 1..d} <=>
          \E k \in DOMAIN Values : \E p \in 1..d :
             x = <<type, cell, n + (k - 1) * d + p - 1, Append(Values[k], p)>>
    OBVIOUS
  <1> QED BY <1>1 DEF Laid

(* What a command writes.                                                  *)
LEMMA InWritten ==
  ASSUME NEW x, NEW w, w = SpanWidth(command.type, command.format),
         NEW n, n = Place(command.type, command.number),
         NEW cell, cell = CellOf(command.kind)
  PROVE  x \in Written <=>
           \E v \in DOMAIN command.items : \E p \in 1..w :
             x = <<command.type, cell, n + (v - 1) * w + p - 1, command.items[v][p]>>
  <1>1. x \in {<<command.type, cell, n + (v - 1) * w + p - 1, command.items[v][p]>> :
                 v \in DOMAIN command.items, p \in 1..w} <=>
          \E v \in DOMAIN command.items : \E p \in 1..w :
            x = <<command.type, cell, n + (v - 1) * w + p - 1, command.items[v][p]>>
    OBVIOUS
  <1>2. Written = {<<command.type, cell, n + (v - 1) * w + p - 1, command.items[v][p]>> :
                     v \in DOMAIN command.items, p \in 1..w}
    BY DEF Written
  <1> QED BY <1>1, <1>2

(* Items of a format are laid out over as many devices as it takes.        *)
LEMMA ItemsLaid ==
  ASSUME command.items = Items(command.type, command.format)
  PROVE  Written = Laid(command.type, CellOf(command.kind),
                        Place(command.type, command.number),
                        SpanWidth(command.type, command.format))
  <1>1. PICK w, n, cell : /\ w = SpanWidth(command.type, command.format)
                          /\ n = Place(command.type, command.number)
                          /\ cell = CellOf(command.kind)
    OBVIOUS
  <1>2. command.items = [v \in DOMAIN Values |-> [p \in 1..w |-> Append(Values[v], p)]]
    BY <1>1 DEF Items
  <1>3. /\ DOMAIN command.items = DOMAIN Values
        /\ \A v \in DOMAIN Values : \A p \in 1..w :
             command.items[v][p] = Append(Values[v], p)
    BY <1>2
  <1>4. ASSUME NEW x
        PROVE  x \in Written <=> x \in Laid(command.type, cell, n, w)
    <2>1. x \in Written <=>
            \E v \in DOMAIN command.items : \E p \in 1..w :
              x = <<command.type, cell, n + (v - 1) * w + p - 1, command.items[v][p]>>
      BY <1>1, InWritten
    <2>2. x \in Laid(command.type, cell, n, w) <=>
            \E k \in DOMAIN Values : \E p \in 1..w :
              x = <<command.type, cell, n + (k - 1) * w + p - 1, Append(Values[k], p)>>
      BY InLaid
    <2>3. \A v \in DOMAIN Values : \A p \in 1..w :
            <<command.type, cell, n + (v - 1) * w + p - 1, command.items[v][p]>>
              = <<command.type, cell, n + (v - 1) * w + p - 1, Append(Values[v], p)>>
      BY <1>3
    <2>4. ASSUME x \in Written
          PROVE  x \in Laid(command.type, cell, n, w)
      <3>1. PICK v \in DOMAIN Values, p \in 1..w :
              x = <<command.type, cell, n + (v - 1) * w + p - 1, command.items[v][p]>>
        BY <1>3, <2>1, <2>4
      <3> QED BY <2>2, <2>3, <3>1
    <2>5. ASSUME x \in Laid(command.type, cell, n, w)
          PROVE  x \in Written
      <3>1. PICK v \in DOMAIN Values, p \in 1..w :
              x = <<command.type, cell, n + (v - 1) * w + p - 1, Append(Values[v], p)>>
        BY <2>2, <2>5
      <3> QED BY <1>3, <2>1, <2>3, <3>1
    <2> QED BY <2>4, <2>5
  <1>5. Written = Laid(command.type, cell, n, w)
    BY <1>4
  <1> QED BY <1>1, <1>5

(* Pairs of words are laid out over as many devices as two words take.     *)
LEMMA PairsLaid ==
  ASSUME TypeOK, Given, command.items = Pairs, command.type = First.type,
         command.format = "U", Place(command.type, command.number) \in Nat,
         NEW w, w = SpanWidth(First.type, "U")
  PROVE  Written = Laid(command.type, CellOf(command.kind),
                        Place(command.type, command.number), 2 * w)
  <1>1. PICK n, N, cell : /\ n = Place(command.type, command.number)
                          /\ N = Len(Values) /\ cell = CellOf(command.kind)
    OBVIOUS
  <1>2. N \in Nat /\ DOMAIN Values = 1..N /\ n \in Nat
    BY <1>1, ValuesFacts
  <1>3. w = 1 \/ w = 16
    BY DEF SpanWidth
  <1>4. command.items = [v \in 1..2 * N |-> [p \in 1..w |->
          Append(Values[(v + 1) \div 2], IF v % 2 = 1 THEN p ELSE w + p)]]
    BY <1>1 DEF Pairs
  <1>5. /\ DOMAIN command.items = 1..2 * N
        /\ \A v \in 1..2 * N : \A p \in 1..w :
             command.items[v][p]
               = Append(Values[(v + 1) \div 2], IF v % 2 = 1 THEN p ELSE w + p)
    BY <1>4
  <1>6. ASSUME NEW v \in 1..2 * N, NEW p \in 1..w
        PROVE  \E k \in DOMAIN Values : \E q \in 1..2 * w :
                 /\ n + (v - 1) * w + p - 1 = n + (k - 1) * (2 * w) + q - 1
                 /\ command.items[v][p] = Append(Values[k], q)
    <2>1. PICK k, q : k = (v + 1) \div 2 /\ q = IF v % 2 = 1 THEN p ELSE w + p
      OBVIOUS
    <2>2. /\ k \in 1..N
          /\ (v = 2 * k - 1 /\ q = p) \/ (v = 2 * k /\ q = w + p)
      BY <2>1, <1>2
    <2>3. q \in 1..2 * w
      BY <2>2, <1>3
    <2>4. command.items[v][p] = Append(Values[k], q)
      BY <1>5, <2>1
    <2>5. n + (v - 1) * w + p - 1 = n + (k - 1) * (2 * w) + q - 1
      <3>1. CASE w = 1
        BY <1>2, <2>2, <3>1
      <3>2. CASE w = 16
        BY <1>2, <2>2, <3>2
      <3> QED BY <1>3, <3>1, <3>2
    <2> QED BY <1>2, <2>2, <2>3, <2>4, <2>5
  <1>7. ASSUME NEW k \in DOMAIN Values, NEW q \in 1..2 * w
        PROVE  \E v \in 1..2 * N : \E p \in 1..w :
                 /\ n + (v - 1) * w + p - 1 = n + (k - 1) * (2 * w) + q - 1
                 /\ command.items[v][p] = Append(Values[k], q)
    <2>1. PICK v, p : /\ v = IF q <= w THEN 2 * k - 1 ELSE 2 * k
                      /\ p = IF q <= w THEN q ELSE q - w
      OBVIOUS
    <2>2. k \in 1..N
      BY <1>2
    <2>3. v \in 1..2 * N /\ p \in 1..w
      BY <2>1, <2>2, <1>2, <1>3
    <2>4. (v + 1) \div 2 = k /\ q = IF v % 2 = 1 THEN p ELSE w + p
      <3>1. CASE q <= w
        <4>1. v = 2 * k - 1 /\ p = q
          BY <2>1, <3>1
        <4>2. (v + 1) \div 2 = k /\ v % 2 = 1
          BY <4>1, <2>2, <1>2
        <4> QED BY <4>1, <4>2
      <3>2. CASE ~(q <= w)
        <4>1. v = 2 * k /\ p = q - w
          BY <2>1, <3>2
        <4>2. (v + 1) \div 2 = k /\ v % 2 = 0
          BY <4>1, <2>2, <1>2
        <4>3. q = w + p
          BY <4>1, <1>3
        <4> QED BY <4>2, <4>3
      <3> QED BY <3>1, <3>2
    <2>5. command.items[v][p] = Append(Values[k], q)
      BY <1>5, <2>3, <2>4
    <2>6. n + (v - 1) * w + p - 1 = n + (k - 1) * (2 * w) + q - 1
      <3>1. q \in Int /\ k \in Int /\ n \in Int
        BY <1>2, <1>3, <2>2
      <3>2. \/ v = 2 * k - 1 /\ p = q
            \/ v = 2 * k /\ p = q - w
        BY <2>1
      <3>3. CASE w = 1
        BY <3>1, <3>2, <3>3
      <3>4. CASE w = 16
        BY <3>1, <3>2, <3>4
      <3> QED BY <1>3, <3>3, <3>4
    <2> QED BY <2>3, <2>5, <2>6
  <1>8. ASSUME NEW x
        PROVE  x \in Written <=> x \in Laid(command.type, cell, n, 2 * w)
    <2>1. x \in Laid(command.type, cell, n, 2 * w) <=>
            \E k \in DOMAIN Values : \E q \in 1..2 * w :
              x = <<command.type, cell, n + (k - 1) * (2 * w) + q - 1,
                    Append(Values[k], q)>>
      BY InLaid
    <2>2. x \in Written <=>
            \E v \in DOMAIN command.items : \E p \in 1..w :
              x = <<command.type, cell, n + (v - 1) * w + p - 1, command.items[v][p]>>
      BY <1>1, InWritten
    <2>3. ASSUME x \in Written
          PROVE  x \in Laid(command.type, cell, n, 2 * w)
      <3>1. PICK v \in 1..2 * N, p \in 1..w :
              x = <<command.type, cell, n + (v - 1) * w + p - 1, command.items[v][p]>>
        BY <1>5, <2>2, <2>3
      <3>2. PICK k \in DOMAIN Values, q \in 1..2 * w :
              /\ n + (v - 1) * w + p - 1 = n + (k - 1) * (2 * w) + q - 1
              /\ command.items[v][p] = Append(Values[k], q)
        BY <1>6
      <3>3. x = <<command.type, cell, n + (k - 1) * (2 * w) + q - 1,
                  Append(Values[k], q)>>
        BY <3>1, <3>2, Zenon
      <3> QED BY <2>1, <3>3, Zenon
    <2>4. ASSUME x \in Laid(command.type, cell, n, 2 * w)
          PROVE  x \in Written
      <3>1. PICK k \in DOMAIN Values, q \in 1..2 * w :
              x = <<command.type, cell, n + (k - 1) * (2 * w) + q - 1,
                    Append(Values[k], q)>>
        BY <2>1, <2>4
      <3>2. PICK v \in 1..2 * N, p \in 1..w :
              /\ n + (v - 1) * w + p - 1 = n + (k - 1) * (2 * w) + q - 1
              /\ command.items[v][p] = Append(Values[k], q)
        BY <1>7
      <3>3. x = <<command.type, cell, n + (v - 1) * w + p - 1, command.items[v][p]>>
        BY <3>1, <3>2, Zenon
      <3>4. v \in DOMAIN command.items
        BY <1>5, <3>2
      <3> QED BY <2>2, <3>2, <3>3, <3>4, Zenon
    <2> QED BY <2>3, <2>4
  <1>9. Written = Laid(command.type, cell, n, 2 * w)
    BY <1>8
  <1> QED BY <1>1, <1>9

(* The values of one address, laid out over the devices it has.            *)
LEMMA AloneIsWanted ==
  ASSUME TypeOK, Given, Alone, NEW d, Span(First) = d,
         NEW cell, Cell(First) = cell
  PROVE  Laid(First.type, cell, Place(First.type, First.number), d) = Wanted
  <1>1. DOMAIN entries = {1} /\ First = entries[1]
    BY GivenFacts DEF Alone
  <1>2. /\ DOMAIN Values = 1..counts[1]
        /\ \A k \in 1..counts[1] : \A p : Append(Values[k], p) = <<1, k, p>>
    BY ValuesFacts
  <1>3. Wanted = UNION {Asked(1, v) : v \in 1..counts[1]}
    BY <1>1 DEF Wanted
  <1>4. \A v : Asked(1, v) =
          {<<First.type, cell, Place(First.type, First.number) + (v - 1) * d + p - 1,
             <<1, v, p>>>> : p \in 1..d}
    BY <1>1 DEF Asked
  <1>5. ASSUME NEW x
        PROVE  x \in Laid(First.type, cell, Place(First.type, First.number), d)
                 <=> x \in Wanted
    <2>1. x \in Laid(First.type, cell, Place(First.type, First.number), d) <=>
            \E k \in DOMAIN Values : \E p \in 1..d :
              x = <<First.type, cell, Place(First.type, First.number) + (k - 1) * d + p - 1,
                    Append(Values[k], p)>>
      BY InLaid
    <2>2. x \in Wanted <=> \E v \in 1..counts[1] : x \in Asked(1, v)
      BY <1>3
    <2>3. \A v \in 1..counts[1] :
            x \in Asked(1, v) <=>
              \E p \in 1..d :
                x = <<First.type, cell, Place(First.type, First.number) + (v - 1) * d + p - 1,
                      <<1, v, p>>>>
      BY <1>4
    <2>4. \A v \in 1..counts[1] : \A p :
            <<First.type, cell, Place(First.type, First.number) + (v - 1) * d + p - 1,
              Append(Values[v], p)>>
              = <<First.type, cell, Place(First.type, First.number) + (v - 1) * d + p - 1,
                  <<1, v, p>>>>
      BY <1>2
    <2>5. ASSUME x \in Laid(First.type, cell, Place(First.type, First.number), d)
          PROVE  x \in Wanted
      <3>1. PICK v \in 1..counts[1], p \in 1..d :
              x = <<First.type, cell, Place(First.type, First.number) + (v - 1) * d + p - 1,
                    Append(Values[v], p)>>
        BY <1>2, <2>1, <2>5
      <3>2. /\ v \in DOMAIN Values
            /\ x = <<First.type, cell, Place(First.type, First.number) + (v - 1) * d + p - 1,
                     <<1, v, p>>>>
        BY <1>2, <2>4, <3>1, Zenon
      <3>3. x \in Asked(1, v)
        BY <2>3, <3>2, Zenon
      <3> QED BY <2>2, <3>3
    <2>6. ASSUME x \in Wanted
          PROVE  x \in Laid(First.type, cell, Place(First.type, First.number), d)
      <3>1. PICK v \in 1..counts[1], p \in 1..d :
              x = <<First.type, cell, Place(First.type, First.number) + (v - 1) * d + p - 1,
                    <<1, v, p>>>>
        BY <2>2, <2>3, <2>6
      <3>2. /\ v \in DOMAIN Values
            /\ x = <<First.type, cell, Place(First.type, First.number) + (v - 1) * d + p - 1,
                     Append(Values[v], p)>>
        BY <1>2, <2>4, <3>1, Zenon
      <3> QED BY <2>1, <3>2, Zenon
    <2> QED BY <2>5, <2>6
  <1> QED BY <1>5

(* The values of a list whose addresses lie one after another.             *)
LEMMA ListIsWanted ==
  ASSUME TypeOK, Given, OneFamily, NEW d, NEW cell,
         \A i \in DOMAIN entries : counts[i] = 1 /\ Cell(entries[i]) = cell,
         \A i \in DOMAIN entries :
           /\ Span(entries[i]) = d
           /\ Place(entries[i].type, entries[i].number)
                = Place(First.type, First.number) + (i - 1) * d,
         d \in Nat
  PROVE  Laid(First.type, cell, Place(First.type, First.number), d) = Wanted
  <1> DEFINE n == Place(First.type, First.number)
  <1>1. n \in Nat /\ DOMAIN entries = 1..Len(entries) /\ Len(entries) \in Nat
    BY GivenFacts
  <1>2. /\ DOMAIN Values = DOMAIN entries
        /\ \A k \in DOMAIN entries : \A p : Append(Values[k], p) = <<k, 1, p>>
    <2>1. CASE Alone
      <3>1. DOMAIN entries = {1} /\ 1..counts[1] = {1}
        <4>1. counts[1] = 1
          BY GivenFacts
        <4> QED BY <2>1, <4>1, GivenFacts DEF Alone
      <3> QED BY <2>1, <3>1, ValuesFacts
    <2>2. CASE ~Alone
      BY <2>2, ValuesFacts
    <2> QED BY <2>1, <2>2
  <1>3. ASSUME NEW i \in DOMAIN entries
        PROVE  UNION {Asked(i, v) : v \in 1..counts[i]}
                 = {<<First.type, cell, n + (i - 1) * d + p - 1, <<i, 1, p>>>> : p \in 1..d}
    <2>1. 1..counts[i] = {1}
      OBVIOUS
    <2>2. entries[i].type = First.type
      BY DEF OneFamily
    <2>3. Place(entries[i].type, entries[i].number) = n + (i - 1) * d
      OBVIOUS
    <2>6. Span(entries[i]) = d /\ Cell(entries[i]) = cell
      OBVIOUS
    <2>4. Asked(i, 1) = {<<First.type, cell, (n + (i - 1) * d) + (1 - 1) * d + p - 1,
                           <<i, 1, p>>>> : p \in 1..d}
      BY <2>2, <2>3, <2>6 DEF Asked
    <2>5. (n + (i - 1) * d) + (1 - 1) * d = n + (i - 1) * d
      <3>1. (1 - 1) * d = 0
        OBVIOUS
      <3>2. PICK m : m = (i - 1) * d
        OBVIOUS
      <3>3. n + m \in Int
        BY <2>3, <3>2, GivenFacts
      <3> QED BY <3>1, <3>2, <3>3
    <2> QED BY <2>1, <2>4, <2>5
  <1> HIDE DEF n
  <1>4. ASSUME NEW x
        PROVE  x \in Wanted <=>
                 \E i \in DOMAIN entries : x \in UNION {Asked(i, v) : v \in 1..counts[i]}
    BY DEF Wanted
  <1>5. ASSUME NEW x
        PROVE  x \in Laid(First.type, cell, n, d) <=> x \in Wanted
    <2>1. x \in Laid(First.type, cell, n, d) <=>
            \E k \in DOMAIN Values : \E p \in 1..d :
              x = <<First.type, cell, n + (k - 1) * d + p - 1, Append(Values[k], p)>>
      BY InLaid
    <2>2. x \in Wanted <=>
            \E i \in DOMAIN entries : \E p \in 1..d :
              x = <<First.type, cell, n + (i - 1) * d + p - 1, <<i, 1, p>>>>
      <3>1. ASSUME NEW i \in DOMAIN entries
            PROVE  x \in UNION {Asked(i, v) : v \in 1..counts[i]} <=>
                     \E p \in 1..d :
                       x = <<First.type, cell, n + (i - 1) * d + p - 1, <<i, 1, p>>>>
        BY <1>3
      <3> QED BY <1>4, <3>1, Zenon
    <2>3. \A i \in DOMAIN entries : \A p :
            <<First.type, cell, n + (i - 1) * d + p - 1, Append(Values[i], p)>>
              = <<First.type, cell, n + (i - 1) * d + p - 1, <<i, 1, p>>>>
      BY <1>2
    <2>4. ASSUME x \in Laid(First.type, cell, n, d)
          PROVE  x \in Wanted
      <3>1. PICK i \in DOMAIN entries, p \in 1..d :
              x = <<First.type, cell, n + (i - 1) * d + p - 1, Append(Values[i], p)>>
        BY <1>2, <2>1, <2>4
      <3> QED BY <2>2, <2>3, <3>1
    <2>5. ASSUME x \in Wanted
          PROVE  x \in Laid(First.type, cell, n, d)
      <3>1. PICK i \in DOMAIN entries, p \in 1..d :
              x = <<First.type, cell, n + (i - 1) * d + p - 1, <<i, 1, p>>>>
        BY <2>2, <2>5
      <3>2. /\ i \in DOMAIN Values
            /\ x = <<First.type, cell, n + (i - 1) * d + p - 1, Append(Values[i], p)>>
        BY <1>2, <2>3, <3>1, Zenon
      <3> QED BY <2>1, <3>2, Zenon
    <2> QED BY <2>4, <2>5
  <1> QED BY <1>5 DEF n
-----------------------------------------------------------------------------
(* A value of a format takes the devices that a single read of it takes.   *)
LEMMA DirectFacts ==
  ASSUME NEW r \in [type : DeviceTypes, number : Nat, dtype : Dtypes, bit : 0..15],
         r.dtype \notin {"F", "BIT_IN_WORD", "COMMENT"}
  PROVE  Devices(r) = SpanWidth(r.type, r.dtype)
  <1> USE DEF DIRECT_BIT_DEVICE_TYPES, BIT_BANK_DEVICE_TYPES, WORD_DEVICE_TYPES,
              NATIVE_32BIT_DEVICE_TYPES
  <1>1. r.type \in DeviceTypes /\ r.dtype \in {"U", "S", "H", "D", "L", "BIT"}
    BY DEF Dtypes
  <1>2. CASE Mergeable(r)
    BY <1>1, <1>2 DEF Devices, Mergeable, Mode, Width, SpanWidth
  <1>3. CASE ~Mergeable(r)
    BY <1>1, <1>3 DEF Devices
  <1> QED BY <1>2, <1>3

(* A float takes two devices of one word.                                  *)
LEMMA FloatFacts ==
  ASSUME NEW r \in [type : DeviceTypes, number : Nat, dtype : Dtypes, bit : 0..15],
         r.dtype = "F", r.type \in FLOAT32_ELIGIBLE_DEVICE_TYPES
  PROVE  Devices(r) = 2 /\ SpanWidth(r.type, "U") = 1
  BY DEF DIRECT_BIT_DEVICE_TYPES, BIT_BANK_DEVICE_TYPES, WORD_DEVICE_TYPES,
         NATIVE_32BIT_DEVICE_TYPES, FLOAT32_ELIGIBLE_DEVICE_TYPES,
         Devices, Mergeable, Mode, Width, SpanWidth

(* How many devices a value takes that is written with others, and where.  *)
LEMMA WidthFacts ==
  ASSUME NEW r \in [type : DeviceTypes, number : Nat, dtype : Dtypes, bit : 0..15],
         Semantics(r), r.dtype \notin {"BIT_IN_WORD", "COMMENT"}
  PROVE  /\ r.dtype = "F" => r.type \in FLOAT32_ELIGIBLE_DEVICE_TYPES
         /\ r.type \in {"T", "C"} => r.dtype # "F"
         /\ Kind(r) = "set-value" <=> r.type \in {"T", "C"}
         /\ Kind(r) = "packed" => /\ Devices(r) = 2 /\ SpanWidth(r.type, "U") = 1
                                  /\ BatchSpec(r) = <<"packed", 2, "U">>
                                  /\ Place(r.type, r.number) = BatchNumber(r)
         /\ Kind(r) # "packed" => /\ BatchSpec(r) = <<Kind(r), 1, r.dtype>>
                                  /\ Devices(r) = SpanWidth(r.type, r.dtype)
         /\ Kind(r) \notin {"packed", "single"} =>
              Devices(r) = 1 /\ Place(r.type, r.number) = BatchNumber(r)
  <1> USE DEF DIRECT_BIT_DEVICE_TYPES, BIT_BANK_DEVICE_TYPES, WORD_DEVICE_TYPES,
              NATIVE_32BIT_DEVICE_TYPES, FLOAT32_ELIGIBLE_DEVICE_TYPES
  <1>1. r.type \in DeviceTypes /\ r.dtype \in {"U", "S", "H", "D", "L", "F", "BIT"}
    BY DEF Dtypes
  <1>2. r.dtype # "F" => Devices(r) = SpanWidth(r.type, r.dtype)
    BY DirectFacts
  <1>3. r.dtype = "F" => r.type \in FLOAT32_ELIGIBLE_DEVICE_TYPES
    BY DEF Semantics
  <1>4. r.type \in {"T", "C"} => r.dtype # "F"
    BY DEF Semantics
  <1>5. PICK spec : spec = BatchSpec(r) /\ Kind(r) = spec[1]
    BY DEF Kind
  <1>6. \/ spec = <<"packed", 2, "U">>
        \/ \E kind \in {"set-value", "single", "consecutive"} :
             spec = <<kind, 1, r.dtype>>
        \/ spec = <<"bit", 1, r.dtype>> /\ r.dtype = "BIT"
    BY <1>5 DEF BatchSpec
  <1>7. Kind(r) = "packed" => spec = <<"packed", 2, "U">>
    <2>1. ASSUME spec # <<"packed", 2, "U">>
          PROVE  Kind(r) # "packed"
      <3>1. \E kind \in {"set-value", "single", "consecutive", "bit"} :
              spec = <<kind, 1, r.dtype>>
        BY <1>6, <2>1
      <3>2. PICK kind \in {"set-value", "single", "consecutive", "bit"} :
              spec = <<kind, 1, r.dtype>>
        BY <3>1
      <3>3. spec[1] = kind
        BY <3>2
      <3> QED BY <1>5, <3>3
    <2> QED BY <2>1
  <1>8. Kind(r) # "packed" => spec = <<Kind(r), 1, r.dtype>>
    <2>1. CASE spec = <<"packed", 2, "U">>
      BY <1>5, <2>1
    <2>2. CASE spec # <<"packed", 2, "U">>
      <3>1. \E kind : spec = <<kind, 1, r.dtype>>
        BY <1>6, <2>2
      <3>2. PICK kind : spec = <<kind, 1, r.dtype>>
        BY <3>1
      <3> QED BY <1>5, <3>2
    <2> QED BY <2>1, <2>2
  <1>9. Kind(r) = "packed" =>
          /\ r.dtype \in {"D", "L", "F"}
          /\ r.type \in FLOAT32_ELIGIBLE_DEVICE_TYPES
          /\ r.type \notin DIRECT_BIT_DEVICE_TYPES
    BY <1>1, <1>5 DEF BatchSpec, Semantics, DeviceTypes
  <1>10. Kind(r) \in {"set-value", "consecutive"} =>
           /\ r.type \notin DIRECT_BIT_DEVICE_TYPES
           /\ \/ r.dtype \in {"U", "S", "H"}
              \/ r.type \in NATIVE_32BIT_DEVICE_TYPES
    BY <1>1, <1>5 DEF BatchSpec, Semantics
  <1>11. Kind(r) = "bit" => r.dtype = "BIT" /\ r.type \in DIRECT_BIT_DEVICE_TYPES
    BY <1>1, <1>5 DEF BatchSpec, Semantics
  <1>12. Kind(r) \in {"packed", "single", "set-value", "consecutive", "bit"}
    BY <1>5, <1>6
  <1>13. Kind(r) = "packed" =>
           /\ Devices(r) = 2 /\ SpanWidth(r.type, "U") = 1
           /\ Place(r.type, r.number) = BatchNumber(r)
    <2>1. CASE Kind(r) = "packed"
      <3>1. r.type \in WORD_DEVICE_TYPES /\ r.type \notin NATIVE_32BIT_DEVICE_TYPES
        BY <1>9, <2>1
      <3>2. Mode(r) = "WORDS"
        BY <1>9, <2>1, <3>1 DEF Mode
      <3>3. Devices(r) = 2
        BY <1>9, <2>1, <3>2 DEF Devices, Mergeable, Width
      <3>4. Place(r.type, r.number) = BatchNumber(r)
        BY <1>9, <2>1 DEF BatchNumber, Place
      <3>5. SpanWidth(r.type, "U") = 1
        BY <1>9, <2>1 DEF SpanWidth
      <3> QED BY <3>3, <3>4, <3>5
    <2> QED BY <2>1
  <1>14. Kind(r) # "packed" => r.dtype # "F"
    BY <1>1, <1>5 DEF BatchSpec, Semantics
  <1>15. Kind(r) \notin {"packed", "single"} =>
           Devices(r) = 1 /\ Place(r.type, r.number) = BatchNumber(r)
    <2>1. CASE Kind(r) \in {"set-value", "consecutive"}
      <3>1. Place(r.type, r.number) = r.number
        BY <1>10, <2>1 DEF Place
      <3>2. BatchNumber(r) = r.number
        BY <2>1 DEF BatchNumber
      <3>3. r.dtype # "F"
        BY <1>10, <2>1, <1>1 DEF Semantics
      <3>4. Devices(r) = 1
        BY <1>2, <1>10, <2>1, <3>3 DEF SpanWidth
      <3> QED BY <3>1, <3>2, <3>4
    <2>2. CASE Kind(r) = "bit"
      <3>1. BatchNumber(r) = Place(r.type, r.number)
        BY <2>2 DEF BatchNumber
      <3>2. Devices(r) = 1
        BY <1>2, <1>11, <2>2 DEF SpanWidth
      <3> QED BY <3>1, <3>2
    <2> QED BY <1>12, <2>1, <2>2
  <1>16. Kind(r) = "set-value" <=> r.type \in {"T", "C"}
    BY <1>1, <1>5 DEF BatchSpec
  <1> QED BY <1>2, <1>3, <1>4, <1>5, <1>7, <1>8, <1>13, <1>14, <1>15, <1>16
-----------------------------------------------------------------------------
(* A command of items of a format is exact.                                *)
LEMMA ItemsExact ==
  ASSUME TypeOK, Given, OneFamily, NEW kind, NEW d \in Nat, NEW format,
         command = Direct(kind, format), SpanWidth(First.type, format) = d,
         \/ Alone /\ Span(First) = d /\ Cell(First) = CellOf(kind)
         \/ \A i \in DOMAIN entries :
              /\ counts[i] = 1 /\ Cell(entries[i]) = CellOf(kind)
              /\ Span(entries[i]) = d
              /\ Place(entries[i].type, entries[i].number)
                   = Place(First.type, First.number) + (i - 1) * d
  PROVE  Written = Wanted
  <1>1. /\ command.type = First.type /\ command.number = First.number
        /\ command.format = format /\ command.items = Items(First.type, format)
        /\ command.kind = kind
    BY DEF Direct
  <1>2. command.items = Items(command.type, command.format)
    BY <1>1
  <1>3. PICK cell : cell = CellOf(kind)
    OBVIOUS
  <1>4. Written = Laid(First.type, cell, Place(First.type, First.number), d)
    BY <1>1, <1>2, <1>3, ItemsLaid
  <1>5. CASE Alone /\ Span(First) = d /\ Cell(First) = CellOf(kind)
    BY <1>3, <1>4, <1>5, AloneIsWanted
  <1>6. CASE \A i \in DOMAIN entries :
               /\ counts[i] = 1 /\ Cell(entries[i]) = CellOf(kind)
               /\ Span(entries[i]) = d
               /\ Place(entries[i].type, entries[i].number)
                    = Place(First.type, First.number) + (i - 1) * d
    <2>1. Laid(First.type, cell, Place(First.type, First.number), d) = Wanted
      BY <1>3, <1>6, ListIsWanted
    <2> QED BY <1>4, <2>1
  <1> QED BY <1>5, <1>6

(* A command of pairs of words is exact.                                   *)
LEMMA PairsExact ==
  ASSUME TypeOK, Given, OneFamily, NEW kind, NEW w,
         command = Packed(kind), SpanWidth(First.type, "U") = w,
         \/ Alone /\ Span(First) = 2 * w /\ Cell(First) = CellOf(kind)
         \/ /\ w = 1
            /\ \A i \in DOMAIN entries :
                 /\ counts[i] = 1 /\ Cell(entries[i]) = CellOf(kind)
                 /\ Span(entries[i]) = 2
                 /\ Place(entries[i].type, entries[i].number)
                      = Place(First.type, First.number) + (i - 1) * 2
  PROVE  Written = Wanted
  <1>1. /\ command.type = First.type /\ command.number = First.number
        /\ command.format = "U" /\ command.items = Pairs /\ command.kind = kind
    BY DEF Packed
  <1>2. Place(command.type, command.number) \in Nat
    BY <1>1, GivenFacts
  <1>3. PICK cell, d : cell = CellOf(kind) /\ d = 2 * w
    OBVIOUS
  <1>4. Written = Laid(First.type, cell, Place(First.type, First.number), d)
    BY <1>1, <1>2, <1>3, PairsLaid
  <1>5. CASE Alone /\ Span(First) = 2 * w /\ Cell(First) = CellOf(kind)
    BY <1>3, <1>4, <1>5, AloneIsWanted
  <1>6. CASE /\ w = 1
             /\ \A i \in DOMAIN entries :
                  /\ counts[i] = 1 /\ Cell(entries[i]) = CellOf(kind)
                  /\ Span(entries[i]) = 2
                  /\ Place(entries[i].type, entries[i].number)
                       = Place(First.type, First.number) + (i - 1) * 2
    <2>1. d = 2
      BY <1>3, <1>6
    <2>2. Laid(First.type, cell, Place(First.type, First.number), 2) = Wanted
      BY <1>3, <1>6, ListIsWanted
    <2> QED BY <1>4, <2>1, <2>2
  <1> QED BY <1>5, <1>6

(* A list that was not refused has only addresses that can be written, and *)
(* only values that are some.                                              *)
LEMMA NotRefused ==
  ASSUME ~Refused, NEW i \in DOMAIN entries
  PROVE  Semantics(entries[i]) /\ entries[i].dtype \notin {"BIT_IN_WORD", "COMMENT"}
  BY DEF Refused

(* The devices and the cell that write_named() means.                      *)
LEMMA NamedSpan ==
  ASSUME NEW r, helper = "write_named"
  PROVE  Span(r) = Devices(r) /\ Cell(r) = ReadCell(r.type)
  BY DEF Span, Cell

(* One address with a count, compiled.                                     *)
LEMMA RangeExact ==
  ASSUME TypeOK, Given, OneFamily, ~Refused, helper = "write_named", Alone,
         command = RangeCommand
  PROVE  Written = Wanted
  <1>1. /\ First \in [type : DeviceTypes, number : Nat, dtype : Dtypes, bit : 0..15]
        /\ Semantics(First) /\ First.dtype \notin {"BIT_IN_WORD", "COMMENT"}
    BY GivenFacts, NotRefused
  <1>2. Span(First) = Devices(First) /\ Cell(First) = ReadCell(First.type)
    BY NamedSpan
  <1>3. CASE First.dtype = "F"
    <2>1. First.type \in FLOAT32_ELIGIBLE_DEVICE_TYPES /\ First.type \notin {"T", "C"}
      BY <1>1, <1>3, WidthFacts
    <2>2. command = Packed("consecutive") /\ Cell(First) = CellOf("consecutive")
      BY <1>2, <1>3, <2>1 DEF RangeCommand, ReadCell, CellOf
    <2>3. Devices(First) = 2 /\ SpanWidth(First.type, "U") = 1
      BY <1>1, <1>3, <2>1, FloatFacts
    <2> QED BY <1>2, <2>2, <2>3, PairsExact
  <1>4. CASE First.dtype # "F"
    <2>1. PICK kind : /\ kind = IF First.type \in {"T", "C"} THEN "set-value"
                                                            ELSE "consecutive"
                      /\ command = Direct(kind, First.dtype)
      BY <1>4 DEF RangeCommand
    <2>2. Cell(First) = CellOf(kind)
      BY <1>2, <2>1 DEF ReadCell, CellOf
    <2>3. PICK d : d = SpanWidth(First.type, First.dtype)
      OBVIOUS
    <2>4. d \in Nat
      BY <2>3 DEF SpanWidth
    <2>5. Span(First) = d
      BY <1>1, <1>2, <1>4, <2>3, DirectFacts
    <2> QED BY <2>1, <2>2, <2>3, <2>4, <2>5, ItemsExact
  <1> QED BY <1>3, <1>4

(* Several addresses, or one without a count, compiled.                    *)
LEMMA BatchExact ==
  ASSUME TypeOK, Given, OneFamily, ~Refused, helper = "write_named", FitsOne,
         command = BatchCommand, \A i \in DOMAIN entries : counts[i] = 1
  PROVE  Written = Wanted
  <1>1. /\ 1 \in DOMAIN entries /\ First = entries[1]
        /\ DOMAIN entries = 1..Len(entries) /\ Len(entries) \in Nat
        /\ \A i \in DOMAIN entries :
             /\ entries[i] \in [type : DeviceTypes, number : Nat, dtype : Dtypes,
                                bit : 0..15]
             /\ Semantics(entries[i])
             /\ entries[i].dtype \notin {"BIT_IN_WORD", "COMMENT"}
             /\ Span(entries[i]) = Devices(entries[i])
    BY GivenFacts, NotRefused, NamedSpan
  <1>2. Kind(First) # "single" =>
          \A i \in DOMAIN entries :
            /\ BatchSpec(entries[i]) = BatchSpec(First)
            /\ BatchNumber(entries[i]) = BatchNumber(First) + (i - 1) * Step(First)
    BY DEF FitsOne
  <1>3. \A i \in DOMAIN entries : Cell(entries[i]) = CellOf(Kind(First))
    <2>1. Kind(First) = "set-value" <=> First.type \in {"T", "C"}
      BY <1>1, WidthFacts
    <2>2. \A i \in DOMAIN entries : Cell(entries[i]) = ReadCell(First.type)
      BY NamedSpan DEF OneFamily
    <2> QED BY <2>1, <2>2 DEF ReadCell, CellOf
  <1>4. CASE Kind(First) = "packed"
    <2>1. /\ BatchSpec(First) = <<"packed", 2, "U">> /\ SpanWidth(First.type, "U") = 1
          /\ Place(First.type, First.number) = BatchNumber(First)
      BY <1>1, <1>4, WidthFacts
    <2>2. command = Packed("packed") /\ Step(First) = 2
      BY <1>4, <2>1 DEF BatchCommand, Step
    <2>3. ASSUME NEW i \in DOMAIN entries
          PROVE  /\ Span(entries[i]) = 2
                 /\ Place(entries[i].type, entries[i].number)
                      = Place(First.type, First.number) + (i - 1) * 2
      <3>1. Kind(entries[i]) = "packed"
        BY <1>2, <1>4 DEF Kind
      <3>2. /\ Devices(entries[i]) = 2
            /\ Place(entries[i].type, entries[i].number) = BatchNumber(entries[i])
        BY <1>1, <3>1, WidthFacts
      <3> QED BY <1>1, <1>2, <1>4, <2>1, <2>2, <3>2
    <2> QED BY <1>3, <1>4, <2>1, <2>2, <2>3, PairsExact
  <1>5. CASE Kind(First) = "single"
    <2>1. Alone
      BY <1>5 DEF FitsOne
    <2>2. /\ BatchSpec(First) = <<"single", 1, First.dtype>>
          /\ Devices(First) = SpanWidth(First.type, First.dtype)
      BY <1>1, <1>5, WidthFacts
    <2>3. command = Direct("single", First.dtype)
      BY <1>5, <2>2 DEF BatchCommand
    <2>4. PICK d : d = SpanWidth(First.type, First.dtype)
      OBVIOUS
    <2>5. d \in Nat
      BY <2>4 DEF SpanWidth
    <2>6. Span(First) = d /\ Cell(First) = CellOf("single")
      BY <1>1, <1>3, <1>5, <2>2, <2>4
    <2> QED BY <2>1, <2>3, <2>4, <2>5, <2>6, ItemsExact
  <1>6. CASE Kind(First) \notin {"packed", "single"}
    <2>1. /\ BatchSpec(First) = <<Kind(First), 1, First.dtype>>
          /\ Devices(First) = SpanWidth(First.type, First.dtype)
          /\ Devices(First) = 1
          /\ Place(First.type, First.number) = BatchNumber(First)
      BY <1>1, <1>6, WidthFacts
    <2>2. command = Direct(Kind(First), First.dtype) /\ Step(First) = 1
      BY <1>6, <2>1 DEF BatchCommand, Step
    <2>3. ASSUME NEW i \in DOMAIN entries
          PROVE  /\ Span(entries[i]) = 1
                 /\ Place(entries[i].type, entries[i].number)
                      = Place(First.type, First.number) + (i - 1) * 1
      <3>1. Kind(entries[i]) = Kind(First)
        BY <1>2, <1>6 DEF Kind
      <3>2. /\ Devices(entries[i]) = 1
            /\ Place(entries[i].type, entries[i].number) = BatchNumber(entries[i])
        BY <1>1, <1>6, <3>1, WidthFacts
      <3> QED BY <1>1, <1>2, <1>6, <2>1, <2>2, <3>2
    <2>4. PICK d, kind : d = 1 /\ kind = Kind(First)
      OBVIOUS
    <2>5. /\ d \in Nat /\ SpanWidth(First.type, First.dtype) = d
          /\ command = Direct(kind, First.dtype)
          /\ \A i \in DOMAIN entries :
               /\ counts[i] = 1 /\ Cell(entries[i]) = CellOf(kind)
               /\ Span(entries[i]) = d
               /\ Place(entries[i].type, entries[i].number)
                    = Place(First.type, First.number) + (i - 1) * d
      BY <1>3, <2>1, <2>2, <2>3, <2>4
    <2> QED BY <2>5, ItemsExact
  <1> QED BY <1>4, <1>5, <1>6

(* A run of values of one address, each in the format given.               *)
LEMMA RunExact ==
  ASSUME TypeOK, Given, OneFamily, Alone, helper # "write_dwords",
         First.dtype \notin {"F", "BIT_IN_WORD", "COMMENT"}, NEW kind,
         Cell(First) = CellOf(kind), command = Direct(kind, First.dtype)
  PROVE  Written = Wanted
  <1>1. First \in [type : DeviceTypes, number : Nat, dtype : Dtypes, bit : 0..15]
    BY GivenFacts
  <1>2. PICK d : d = SpanWidth(First.type, First.dtype)
    OBVIOUS
  <1>3. d \in Nat
    BY <1>2 DEF SpanWidth
  <1>4. Span(First) = d
    BY <1>1, <1>2, DirectFacts DEF Span
  <1> QED BY <1>2, <1>3, <1>4, ItemsExact

(* A float by write_typed().                                               *)
LEMMA FloatExact ==
  ASSUME TypeOK, Given, OneFamily, Alone, helper = "write_typed",
         First.dtype = "F", First.type \in FLOAT32_ELIGIBLE_DEVICE_TYPES,
         command = Packed("consecutive")
  PROVE  Written = Wanted
  <1>1. First \in [type : DeviceTypes, number : Nat, dtype : Dtypes, bit : 0..15]
    BY GivenFacts
  <1>2. Span(First) = 2 * 1 /\ SpanWidth(First.type, "U") = 1
    BY <1>1, FloatFacts DEF Span
  <1>3. Cell(First) = CellOf("consecutive")
    BY DEF Cell, CellOf
  <1> QED BY <1>2, <1>3, PairsExact

(* A run of dwords, each as two words.                                     *)
LEMMA DwordsExact ==
  ASSUME TypeOK, Given, OneFamily, Alone, helper = "write_dwords",
         command = Packed("consecutive")
  PROVE  Written = Wanted
  <1>1. PICK w : w = SpanWidth(First.type, "U")
    OBVIOUS
  <1>2. Span(First) = 2 * w /\ Cell(First) = CellOf("consecutive")
    BY <1>1 DEF Span, Cell, CellOf
  <1> QED BY <1>1, <1>2, PairsExact
-----------------------------------------------------------------------------
(* How a command may have come about.                                      *)
Named ==
  /\ helper = "write_named" /\ ~Refused
  /\ \/ Alone /\ command = RangeCommand
     \/ /\ FitsOne /\ command = BatchCommand
        /\ \A i \in DOMAIN entries : counts[i] = 1
Float ==
  /\ helper = "write_typed" /\ Alone /\ fits
  /\ First.dtype = "F" /\ First.type \in FLOAT32_ELIGIBLE_DEVICE_TYPES
  /\ command = Packed("consecutive")
Run ==
  /\ Alone /\ First.dtype \in {"U", "S", "D", "L", "H", "BIT"}
  /\ \/ /\ helper \in {"write_typed", "write_bits", "write_words", "write",
                       "write_consecutive"}
        /\ \E kind \in {"single", "consecutive"} : command = Direct(kind, First.dtype)
     \/ /\ helper = "write_timer_counter_preset"
        /\ command = Direct("set-value", First.dtype)
Dwords ==
  /\ helper = "write_dwords" /\ Alone /\ fits
  /\ command = Packed("consecutive")

Formed == Named \/ Float \/ Run \/ Dwords

(* Whichever way a command came about, it writes what is wanted, and only  *)
(* values that are some.                                                   *)
LEMMA FormedExact ==
  TypeOK /\ Given /\ Formed =>
    /\ OneFamily => Written = Wanted
    /\ command.formats => fits
  <1> SUFFICES ASSUME TypeOK, Given, Formed
               PROVE  /\ OneFamily => Written = Wanted
                      /\ command.formats => fits
    OBVIOUS
  <1>1. CASE Named
    <2>1. fits
      BY <1>1 DEF Named, Refused
    <2> QED BY <1>1, <2>1, RangeExact, BatchExact DEF Named
  <1>2. CASE Float
    BY <1>2, FloatExact DEF Float
  <1>3. CASE Run
    <2>1. PICK kind : /\ command = Direct(kind, First.dtype)
                      /\ Cell(First) = CellOf(kind)
      BY <1>3 DEF Run, Cell, CellOf
    <2>2. command.formats = fits
      BY <2>1 DEF Direct
    <2>3. helper # "write_dwords"
      BY <1>3 DEF Run
    <2>4. Alone /\ First.dtype \notin {"F", "BIT_IN_WORD", "COMMENT"}
      BY <1>3 DEF Run
    <2> QED BY <2>1, <2>2, <2>3, <2>4, RunExact
  <1>4. CASE Dwords
    BY <1>4, DwordsExact DEF Dwords
  <1> QED BY <1>1, <1>2, <1>3, <1>4 DEF Formed

(* The same of the next state.                                             *)
LEMMA FormedExactNext ==
  (TypeOK /\ Given /\ Formed =>
    /\ OneFamily => Written = Wanted
    /\ command.formats => fits)'
  BY FormedExact, PTL
-----------------------------------------------------------------------------
(* What the list and its counts determine stays as long as they do.        *)
LEMMA ListKept ==
  ASSUME UNCHANGED <<entries, counts, fits>>
  PROVE  /\ First' = First /\ Alone' = Alone /\ Refused' = Refused
         /\ FitsOne' = FitsOne
         /\ \A kind, format : Direct(kind, format)' = Direct(kind, format)
         /\ \A kind : Packed(kind)' = Packed(kind)
         /\ RangeCommand' = RangeCommand /\ BatchCommand' = BatchCommand
         /\ OneFamily' = OneFamily /\ Given' = Given
  <1>1. First' = First /\ Alone' = Alone
    BY DEF First, Alone
  <1>2. Values' = Values
    BY <1>1 DEF Values
  <1>3. Pairs' = Pairs
    BY <1>1, <1>2 DEF Pairs
  <1>4. \A type, format : Items(type, format)' = Items(type, format)
    BY <1>2 DEF Items
  <1>5. \A kind, format : Direct(kind, format)' = Direct(kind, format)
    BY <1>1, <1>2 DEF Direct, Items
  <1>6. \A kind : Packed(kind)' = Packed(kind)
    BY <1>1, <1>3 DEF Packed
  <1>7. Refused' = Refused
    BY DEF Refused
  <1>8. FitsOne' = FitsOne
    BY <1>1 DEF FitsOne
  <1>9. RangeCommand' = RangeCommand /\ BatchCommand' = BatchCommand
    BY <1>1, <1>2, <1>3 DEF RangeCommand, BatchCommand, Direct, Packed, Items
  <1>10. OneFamily' = OneFamily /\ Given' = Given
    BY <1>1 DEF OneFamily, Given
  <1> QED BY <1>1, <1>5, <1>6, <1>7, <1>8, <1>9, <1>10

(* What is wanted and what is written stay as long as the call does.       *)
LEMMA WantedKept ==
  ASSUME UNCHANGED <<entries, counts, helper>>
  PROVE  Wanted' = Wanted
  BY DEF Wanted, Asked, Span, Cell

(* A step of a write that leaves the reads alone, and either forms the     *)
(* command or leaves it, keeps the invariant.                              *)
LEMMA WriteKeeps ==
  ASSUME CallInv, ListUnchanged,
         stage' \in {"given", "snapshot", "compiled", "sent", "refused"},
         stage' = "snapshot" => ~Refused /\ helper' = "write_named",
         \/ stage' = "compiled" /\ Formed'
         \/ stage' \notin {"compiled", "sent"}
         \/ /\ stage = "compiled" /\ UNCHANGED <<helper, command>>
            /\ stage' = "sent" => command.formats
  PROVE  CallInv'
  <1> USE DEF ListUnchanged
  <1>1. TypeOK'
    BY DEF CallInv, TypeOK, Segment, vars
  <1>2. /\ Given' = Given /\ Refused' = Refused /\ OneFamily' = OneFamily
        /\ fits' = fits /\ entries' = entries /\ counts' = counts
    BY ListKept DEF vars
  <1>3. Given'
    BY <1>2 DEF CallInv
  <1>4. CommandInv'
    <2>1. CASE stage' = "compiled" /\ Formed'
      <3>1. (OneFamily' => Written' = Wanted') /\ (command'.formats => fits')
        BY <1>1, <1>3, <2>1, FormedExactNext
      <3> QED BY <2>1, <3>1 DEF CommandInv
    <2>2. CASE stage' \notin {"compiled", "sent"}
      BY <2>2 DEF CommandInv
    <2>3. CASE /\ stage = "compiled" /\ UNCHANGED <<helper, command>>
               /\ stage' = "sent" => command.formats
      <3>1. Written' = Written /\ Wanted' = Wanted
        BY <1>2, <2>3, WantedKept DEF Written
      <3>2. (OneFamily => Written = Wanted) /\ (command.formats => fits)
        BY <2>3 DEF CallInv, CommandInv
      <3> QED BY <1>2, <2>3, <3>1, <3>2 DEF CommandInv
    <2> QED BY <2>1, <2>2, <2>3
  <1> QED BY <1>1, <1>2, <1>3, <1>4 DEF CallInv

(* What write_named() snapshots, or refuses.                               *)
LEMMA WriteNamedInv ==
  ASSUME CallInv, WriteNamed
  PROVE  CallInv'
  <1>1. /\ stage' \in {"snapshot", "refused"} /\ (stage' = "snapshot" => ~Refused)
        /\ ListUnchanged /\ helper' = "write_named"
    BY DEF WriteNamed, Call
  <1> QED BY <1>1, WriteKeeps

(* What the snapshot is compiled to.                                       *)
LEMMA CompileWriteInv ==
  ASSUME CallInv, CompileWrite
  PROVE  CallInv'
  <1>1. ListUnchanged /\ ~Refused /\ helper' = "write_named"
    BY DEF CompileWrite, CallInv
  <1>2. /\ Refused' = Refused /\ Alone' = Alone /\ FitsOne' = FitsOne
        /\ RangeCommand' = RangeCommand /\ BatchCommand' = BatchCommand
        /\ entries' = entries /\ counts' = counts
    BY <1>1, ListKept DEF ListUnchanged, vars
  <1>3. CASE Alone /\ command' = RangeCommand /\ stage' = "compiled"
    <2>1. Formed'
      BY <1>1, <1>2, <1>3 DEF Formed, Named
    <2> QED BY <1>1, <1>3, <2>1, WriteKeeps
  <1>4. CASE stage' = "refused"
    BY <1>1, <1>4, WriteKeeps
  <1>5. CASE /\ \A i \in DOMAIN entries : counts[i] = 1
             /\ FitsOne
             /\ command' = BatchCommand
             /\ stage' = "compiled"
    <2>1. Formed'
      BY <1>1, <1>2, <1>5 DEF Formed, Named
    <2> QED BY <1>1, <1>5, <2>1, WriteKeeps
  <1> QED BY <1>3, <1>4, <1>5 DEF CompileWrite, Compiles, Refuses

(* A call of another helper, or of the client, refuses or forms a command. *)
LEMMA CallKeeps ==
  ASSUME CallInv, ListUnchanged,
         stage' = "refused" \/ (stage' = "compiled" /\ Formed')
  PROVE  CallInv'
  BY WriteKeeps

(* What a call does not change.                                            *)
LEMMA CallFacts ==
  ASSUME ListUnchanged
  PROVE  /\ First' = First /\ Alone' = Alone /\ fits' = fits
         /\ \A kind, format : Direct(kind, format)' = Direct(kind, format)
         /\ \A kind : Packed(kind)' = Packed(kind)
  BY ListKept DEF ListUnchanged, vars

(* What write_typed() compiles.                                            *)
LEMMA WriteTypedInv ==
  ASSUME CallInv, WriteTyped
  PROVE  CallInv'
  <1>1. ListUnchanged /\ Alone /\ helper' = "write_typed"
    BY DEF WriteTyped, Call
  <1>2. First \in [type : DeviceTypes, number : Nat, dtype : Dtypes, bit : 0..15]
    BY GivenFacts DEF CallInv
  <1>3. CASE stage' = "refused"
    BY <1>1, <1>3, CallKeeps
  <1>4. CASE /\ First.dtype \notin {"F", "BIT_IN_WORD", "COMMENT"}
             /\ stage' = "compiled" /\ command' = Direct("single", First.dtype)
    <2>1. First.dtype \in {"U", "S", "D", "L", "H", "BIT"}
      BY <1>2, <1>4 DEF Dtypes
    <2>2. Run'
      BY <1>1, <1>4, <2>1, CallFacts DEF Run
    <2> QED BY <1>1, <1>4, <2>2, CallKeeps DEF Formed
  <1>5. CASE /\ First.dtype = "F" /\ First.type \in FLOAT32_ELIGIBLE_DEVICE_TYPES
             /\ fits /\ stage' = "compiled" /\ command' = Packed("consecutive")
    <2>1. Float'
      BY <1>1, <1>5, CallFacts DEF Float
    <2> QED BY <1>1, <1>5, <2>1, CallKeeps DEF Formed
  <1> QED BY <1>3, <1>4, <1>5, GivenFacts DEF WriteTyped, Compiles, Refuses, CallInv

(* What the helpers of a run of values and the client's methods compile.   *)
LEMMA WriteRunInv ==
  ASSUME CallInv,
         WriteBits \/ WriteWords \/ Write \/ WriteConsecutive \/ WritePreset
  PROVE  CallInv'
  <1>1. /\ ListUnchanged /\ Alone
        /\ First.dtype \in {"U", "S", "D", "L", "H", "BIT"}
    BY DEF WriteBits, WriteWords, Write, WriteConsecutive, WritePreset, Call,
           HasFormat
  <1>2. CASE stage' = "refused"
    BY <1>1, <1>2, CallKeeps
  <1>3. CASE /\ helper' \in {"write_bits", "write_words", "write",
                             "write_consecutive"}
             /\ stage' = "compiled"
             /\ \E kind \in {"single", "consecutive"} :
                  command' = Direct(kind, First.dtype)
    <2>1. Run'
      BY <1>1, <1>3, CallFacts DEF Run
    <2> QED BY <1>1, <1>3, <2>1, CallKeeps DEF Formed
  <1>4. CASE /\ helper' = "write_timer_counter_preset" /\ stage' = "compiled"
             /\ command' = Direct("set-value", First.dtype)
    <2>1. Run'
      BY <1>1, <1>4, CallFacts DEF Run
    <2> QED BY <1>1, <1>4, <2>1, CallKeeps DEF Formed
  <1> QED BY <1>2, <1>3, <1>4 DEF WriteBits, WriteWords, Write, WriteConsecutive,
             WritePreset, Call, Compiles, Refuses

(* What write_dwords_single_request() compiles.                            *)
LEMMA WriteDwordsInv ==
  ASSUME CallInv, WriteDwords
  PROVE  CallInv'
  <1>1. ListUnchanged /\ Alone /\ helper' = "write_dwords"
    BY DEF WriteDwords, Call
  <1>2. CASE stage' = "refused"
    BY <1>1, <1>2, CallKeeps
  <1>3. CASE fits /\ stage' = "compiled" /\ command' = Packed("consecutive")
    <2>1. Dwords'
      BY <1>1, <1>3, CallFacts DEF Dwords
    <2> QED BY <1>1, <1>3, <2>1, CallKeeps DEF Formed
  <1> QED BY <1>2, <1>3 DEF WriteDwords, Compiles, Refuses

(* The builders do not change the command; one that is built has only      *)
(* values that its format can say.                                         *)
LEMMA PreflightWriteInv ==
  ASSUME CallInv, PreflightWrite
  PROVE  CallInv'
  <1>1. /\ ListUnchanged /\ UNCHANGED <<helper, command>>
        /\ stage = "compiled" /\ stage' \in {"sent", "refused"}
        /\ stage' = "sent" => Builds(command)
    BY DEF PreflightWrite
  <1>2. Builds(command) => command.formats
    BY DEF Builds, BuildWrite, BuildWriteSetValue, BuildWriteConsecutive
  <1> QED BY <1>1, <1>2, WriteKeeps

(* The reads never change the list.                                        *)
LEMMA ListIsGiven ==
  ASSUME [Next]_vars
  PROVE  entries' = entries
  <1>1. CASE UNCHANGED vars
    BY <1>1 DEF vars
  <1>2. ASSUME NEW i \in DOMAIN entries, Arrange(i)
        PROVE  entries' = entries
    BY <1>2 DEF Arrange
  <1>3. CASE Next /\ ~\E i \in DOMAIN entries : Arrange(i)
    BY <1>3 DEF Next, Parse, Compiled, Preflight, Begin, ReadSegment, ReadFails,
                Deliver, Tick, Done, PlanUnchanged, vars
  <1> QED BY <1>1, <1>2, <1>3

(* Reading back leaves the write alone.                                    *)
LEMMA ReadKeeps ==
  ASSUME IInv, IInv', CallInv, [Next]_vars, UNCHANGED writeVars
  PROVE  CallInv'
  <1>1. /\ UNCHANGED <<entries, counts, fits>> /\ UNCHANGED command
        /\ UNCHANGED stage /\ UNCHANGED helper
    BY ListIsGiven DEF writeVars
  <1>2. /\ Given' = Given /\ Refused' = Refused /\ OneFamily' = OneFamily
        /\ Wanted' = Wanted
    BY <1>1, ListKept, WantedKept
  <1>3. Written' = Written
    BY <1>1 DEF Written
  <1> QED BY <1>1, <1>2, <1>3 DEF CallInv, CommandInv, IInv

(* Calling a write is, for the reads, nothing.                             *)
LEMMA CallStepIsRead ==
  ASSUME [CallNext]_callVars
  PROVE  [Next]_vars
  <1>1. CASE UNCHANGED callVars
    BY <1>1 DEF callVars
  <1>2. CASE \/ WriteNamed \/ CompileWrite \/ WriteTyped \/ WriteBits \/ WriteWords
             \/ WriteDwords \/ Write \/ WriteConsecutive \/ WritePreset
             \/ PreflightWrite
    BY <1>2 DEF WriteNamed, CompileWrite, WriteTyped, WriteBits, WriteWords,
                WriteDwords, Write, WriteConsecutive, WritePreset, PreflightWrite,
                Call, ListUnchanged
  <1>3. CASE ReadBack
    BY <1>3 DEF ReadBack
  <1>4. CASE Ended
    BY <1>4 DEF Ended, callVars
  <1> QED BY <1>1, <1>2, <1>3, <1>4 DEF CallNext

(* A call begins without a command.                                        *)
LEMMA CallInitInv == CallInit => CallInv
  <1> SUFFICES ASSUME CallInit PROVE CallInv
    OBVIOUS
  <1>1. TypeOK
    BY InitInv DEF CallInit, IInv
  <1>2. PICK n \in 1..MaxEntries : entries \in [1..n -> Addresses]
    BY DEF CallInit, Init
  <1>3. DOMAIN entries = 1..Len(entries) /\ Len(entries) > 0
    BY <1>2, BoundAssumption
  <1>4. PICK count \in 0..MaxCount :
          counts = [i \in DOMAIN entries |-> IF i = Len(entries) THEN count ELSE 1]
    BY DEF CallInit
  <1>5. Given
    BY <1>3, <1>4, WriteAssumption DEF Given, CallInit
  <1> QED BY <1>1, <1>5 DEF CallInit, CallInv, CommandInv

(* Every step of a call keeps the invariant.                               *)
LEMMA CallNextInv ==
  ASSUME IInv, IInv', CallInv, [CallNext]_callVars
  PROVE  CallInv'
  <1>1. CASE UNCHANGED callVars
    BY <1>1, ReadKeeps DEF callVars
  <1>2. CASE WriteNamed
    BY <1>2, WriteNamedInv
  <1>3. CASE WriteTyped
    BY <1>3, WriteTypedInv
  <1>4. CASE WriteBits \/ WriteWords \/ Write \/ WriteConsecutive \/ WritePreset
    BY <1>4, WriteRunInv
  <1>5. CASE CompileWrite
    BY <1>5, CompileWriteInv
  <1>6. CASE PreflightWrite
    BY <1>6, PreflightWriteInv
  <1>7. CASE ReadBack
    BY <1>7, ReadKeeps DEF ReadBack
  <1>8. CASE Ended
    BY <1>8, ReadKeeps DEF Ended, callVars
  <1>9. CASE WriteDwords
    BY <1>9, WriteDwordsInv
  <1> QED BY <1>1, <1>2, <1>3, <1>4, <1>5, <1>6, <1>7, <1>8, <1>9 DEF CallNext
-----------------------------------------------------------------------------
(* A call of the write helpers followed by reads is, for the reads, a      *)
(* behaviour of read_named() and poll(): writing leaves their list and     *)
(* their plan alone, so that all that is proved of ReadPlan holds of it.   *)
THEOREM CallIsRead == CallSpec => Spec
  <1>1. CallInit => Init
    BY DEF CallInit
  <1>2. [CallNext]_callVars => [Next]_vars
    BY CallStepIsRead
  <1> QED BY <1>1, <1>2, PTL DEF CallSpec, Spec

(* The values read back after a write are whole, too (utils.py 559-619).   *)
THEOREM ReadBackCorrect == CallSpec => []EntriesAreWhole
  BY CallIsRead, ValuesCorrect, PTL

(* The invariant holds of every call.                                      *)
THEOREM CallInvariance == CallSpec => []CallInv
  <1>1. CallInit => CallInv
    BY CallInitInv
  <1>2. IInv /\ IInv' /\ CallInv /\ [CallNext]_callVars => CallInv'
    BY CallNextInv
  <1> QED BY <1>1, <1>2, CallIsRead, Invariance, PTL DEF CallSpec

(* A write that is sent puts every value of the list, whole and in the     *)
(* order of its words, into the cells that WriteIsExact names, and touches *)
(* no other: for every list of one family, every count, every helper and   *)
(* every writing method of the client, every family its builder accepts    *)
(* (utils.py 465-521, 622-826, 1295-1381, client.py 783-949).              *)
THEOREM WriteCorrect == CallSpec => []WriteIsExact
  <1>1. CallInv => WriteIsExact
    BY DEF CallInv, CommandInv, WriteIsExact, Wanted
  <1> QED BY <1>1, CallInvariance, PTL
=============================================================================
