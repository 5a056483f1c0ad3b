--------------------------- MODULE OrderNoProofs ---------------------------
(***************************************************************************)
(* SYSTEM_NO, for any widths: what encode_orderno leaves of a mobile       *)
(* number and its second after the two overflows, and what can be told     *)
(* from it.                                                                *)
(***************************************************************************)
EXTENDS OrderNo, TLAPS

(***************************************************************************)
(* Lemmas on integers.                                                     *)
(***************************************************************************)

LEMMA Regroup ==
  ASSUME NEW a \in Int, NEW b \in Int, NEW c \in Int
  PROVE  a * (b * c) = (a * b) * c /\ (a * b) * c = a * (c * b)
  OBVIOUS

LEMMA Distribute ==
  ASSUME NEW a \in Int, NEW b \in Int, NEW c \in Int
  PROVE  (a + b) * c = a * c + b * c
  OBVIOUS

(* Quotient and remainder are the only ones.                               *)
LEMMA DivMod ==
  ASSUME NEW m \in Nat \ {0}, NEW q \in Int, NEW r \in 0..(m - 1), NEW x \in Int,
         x = q * m + r
  PROVE  x % m = r /\ x \div m = q
  OBVIOUS

(* Every integer has a quotient and a remainder.                           *)
LEMMA HasDivMod ==
  ASSUME NEW m \in Nat \ {0}, NEW x \in Int
  PROVE  \E q \in Int, r \in 0..(m - 1) : x = q * m + r /\ r = x % m
  <1>1. PICK q \in Int, r \in 0..(m - 1) : q = x \div m /\ r = x % m
    OBVIOUS
  <1>2. x = q * m + r
    BY <1>1
  <1> QED BY <1>1, <1>2

(* A multiple of m that is less than m is nothing.                         *)
LEMMA SmallMultiple ==
  ASSUME NEW m \in Nat \ {0}, NEW d \in Int, d * m \in 0..(m - 1)
  PROVE  d = 0
  <1>1. CASE d >= 1
    <2>1. PICK e \in Nat : d = e + 1
      BY <1>1
    <2>2. d * m = e * m + m /\ e * m \in Nat
      BY <2>1
    <2> QED BY <2>2
  <1>2. CASE d <= -1
    <2>1. PICK e \in Nat : d + e + 1 = 0
      BY <1>2
    <2>2. d * m = -(e * m) - m /\ e * m \in Nat
      BY <2>1
    <2> QED BY <2>2
  <1> QED BY <1>1, <1>2

(* A digit i of base m and what is below it fit i + 1 times m.             *)
LEMMA TwoDigits ==
  ASSUME NEW m \in Nat \ {0}, NEW n \in Nat \ {0},
         NEW i \in 0..(n - 1), NEW x \in 0..(m - 1)
  PROVE  i * m + x \in 0..(m * n - 1)
  <1>1. PICK e \in Nat : n = i + 1 + e
    OBVIOUS
  <1>2. m * n = i * m + m + e * m /\ e * m \in Nat /\ i * m \in Nat
    BY <1>1
  <1> QED BY <1>2

(***************************************************************************)
(* The number.                                                             *)
(***************************************************************************)

LEMMA WordPositive == Word \in Nat \ {0}
  BY OrderNoAssumption DEF Word

(* What is left of a mobile number and its second: the number whole, the   *)
(* seconds since Epoch modulo TimeSpan.                                    *)
LEMMA Encoded ==
  ASSUME NEW phone \in Mobiles, NEW t \in Int
  PROVE  \E m \in Int, i \in 0..(TimeSpan - 1) :
            /\ t - Epoch = m * TimeSpan + i
            /\ encode_orderno(phone, t) = i * PhoneSpan + (phone - Base)
  <1>0. /\ Base \in Nat /\ Epoch \in Nat /\ Clock \in Nat
        /\ PhoneSpan \in Nat \ {0} /\ TimeSpan \in Nat \ {0}
    BY OrderNoAssumption
  <1>1. PICK k \in Nat \ {0} : Clock = k * TimeSpan /\ Clock \in Nat \ {0}
    <2>1. PICK j \in 1..Clock : Clock = j * TimeSpan
      BY OrderNoAssumption
    <2>2. j \in Nat \ {0} /\ Clock \in Nat \ {0}
      BY <1>0
    <2> QED BY <2>1, <2>2
  <1>2. PICK s \in Int : s = t - Epoch
    BY <1>0
  <1>3. PICK x \in 0..(PhoneSpan - 1) : x = phone - Base
    BY <1>0 DEF Mobiles
  <1>4. PICK w \in Int, a \in 0..(Clock - 1) : s = w * Clock + a /\ a = s % Clock
    BY <1>1, HasDivMod
  <1>5. PICK q \in Int, i \in 0..(TimeSpan - 1) : a = q * TimeSpan + i
    <2>1. a \in Int /\ TimeSpan \in Nat \ {0}
      BY <1>0
    <2> QED BY <2>1, HasDivMod
  <1>6. PICK m \in Int : m = w * k + q
    OBVIOUS
  <1>7. s = m * TimeSpan + i
    <2>1. w * Clock = (w * k) * TimeSpan
      BY <1>1, Regroup, <1>0
    <2>2. PICK v \in Int : v = w * k
      OBVIOUS
    <2>3. m * TimeSpan = v * TimeSpan + q * TimeSpan
      BY <2>2, <1>6, Distribute, <1>0
    <2>4. PICK y \in Int, z \in Int : y = v * TimeSpan /\ z = q * TimeSpan
      BY <1>0
    <2>5. s = y + a /\ a = z + i /\ m * TimeSpan = y + z
      BY <2>1, <2>2, <2>3, <2>4, <1>4, <1>5
    <2> QED BY <2>5, <1>0
  <1>8. PICK r \in 0..(Word - 1) : r = i * PhoneSpan + x
    BY TwoDigits, <1>0 DEF Word
  <1>9. a * PhoneSpan + x = q * Word + r
    <2>1. PICK b \in Int : b = q * TimeSpan
      BY <1>0
    <2>2. a * PhoneSpan = b * PhoneSpan + i * PhoneSpan
      BY <2>1, <1>5, Distribute, <1>0
    <2>3. b * PhoneSpan = q * Word
      BY <2>1, Regroup, <1>0 DEF Word
    <2>4. PICK y \in Int, z \in Int : y = q * Word /\ z = i * PhoneSpan
      BY WordPositive, <1>0
    <2>5. a * PhoneSpan = y + z /\ r = z + x
      BY <2>2, <2>3, <2>4, <1>8
    <2> QED BY <2>4, <2>5
  <1>10. PICK e \in Int : e = a * PhoneSpan + x
    BY <1>4, <1>0
  <1>11. e % Word = r
    <2>1. PICK d \in Nat \ {0} : d = Word
      BY WordPositive
    <2>2. e = q * d + r /\ r \in 0..(d - 1)
      BY <2>1, <1>9, <1>10
    <2>3. e % d = r
      BY <2>2, DivMod, SMTT(30)
    <2> QED BY <2>1, <2>3
  <1>12. encode_orderno(phone, t) = r
    BY <1>2, <1>3, <1>4, <1>10, <1>11 DEF encode_orderno
  <1> QED BY <1>2, <1>3, <1>7, <1>8, <1>12

(* It is what encode_orderno gave, and decode_orderno takes the phone      *)
(* number back out.                                                        *)
LEMMA Decoded ==
  ASSUME NEW phone \in Mobiles, NEW t \in Int
  PROVE  decode_orderno(encode_orderno(phone, t)).phoneno = phone
  <1>1. PICK i \in 0..(TimeSpan - 1) :
            encode_orderno(phone, t) = i * PhoneSpan + (phone - Base)
    BY Encoded
  <1>2. PICK x \in 0..(PhoneSpan - 1) : x = phone - Base /\ x + Base = phone
    BY OrderNoAssumption DEF Mobiles
  <1>3. PICK e \in Int : e = i * PhoneSpan + x
    BY OrderNoAssumption
  <1>4. e % PhoneSpan = x
    <2>1. PhoneSpan \in Nat \ {0} /\ i \in Int
      BY OrderNoAssumption
    <2> QED BY <2>1, <1>3, DivMod
  <1> QED BY <1>1, <1>2, <1>3, <1>4 DEF decode_orderno

(* Two mobile orders of less than TimeSpan seconds share a number only if  *)
(* they share phone and second.                                            *)
LEMMA EncodedApart ==
  ASSUME NEW phone1 \in Mobiles, NEW t1 \in Int, NEW phone2 \in Mobiles, NEW t2 \in Int,
         encode_orderno(phone1, t1) = encode_orderno(phone2, t2),
         t1 - t2 \in 0..(TimeSpan - 1)
  PROVE  phone1 = phone2 /\ t1 = t2
  <1>0. /\ Base \in Nat /\ Epoch \in Nat
        /\ PhoneSpan \in Nat \ {0} /\ TimeSpan \in Nat \ {0}
    BY OrderNoAssumption
  <1>1. PICK m1 \in Int, i1 \in 0..(TimeSpan - 1) :
            /\ t1 - Epoch = m1 * TimeSpan + i1
            /\ encode_orderno(phone1, t1) = i1 * PhoneSpan + (phone1 - Base)
    BY Encoded
  <1>2. PICK m2 \in Int, i2 \in 0..(TimeSpan - 1) :
            /\ t2 - Epoch = m2 * TimeSpan + i2
            /\ encode_orderno(phone2, t2) = i2 * PhoneSpan + (phone2 - Base)
    BY Encoded
  <1>3. PICK x1 \in 0..(PhoneSpan - 1), x2 \in 0..(PhoneSpan - 1) :
            x1 = phone1 - Base /\ x2 = phone2 - Base
    BY <1>0 DEF Mobiles
  <1>4. i1 = i2 /\ x1 = x2
    <2>1. PICK e \in Int : e = i1 * PhoneSpan + x1
      BY <1>0
    <2>2. e = i2 * PhoneSpan + x2
      BY <2>1, <1>1, <1>2, <1>3
    <2>3. i1 \in Int /\ i2 \in Int
      BY <1>0
    <2>4. e % PhoneSpan = x1 /\ e \div PhoneSpan = i1
      BY <2>1, <2>3, <1>0, DivMod
    <2>5. e % PhoneSpan = x2 /\ e \div PhoneSpan = i2
      BY <2>2, <2>3, <1>0, DivMod
    <2> QED BY <2>4, <2>5
  <1>5. t1 = t2
    <2>1. PICK d \in Int : d = m1 - m2
      OBVIOUS
    <2>2. m1 * TimeSpan = d * TimeSpan + m2 * TimeSpan
      BY <2>1, <1>0, Distribute
    <2>3. PICK y \in Int, z \in Int : y = d * TimeSpan /\ z = m2 * TimeSpan
      BY <1>0
    <2>4. t1 - t2 = y
      BY <2>2, <2>3, <1>0, <1>1, <1>2, <1>4
    <2>5. d = 0
      BY <2>3, <2>4, <1>0, SmallMultiple
    <2> QED BY <2>3, <2>4, <2>5, <1>0
  <1> QED BY <1>3, <1>4, <1>5, <1>0 DEF Mobiles

(***************************************************************************)
(* The orders.                                                             *)
(***************************************************************************)

(* Every order has the number of its phone and its second.                 *)
Numbered == \A o \in orders : o.no = encode_orderno(o.phone, o.created)

OrderNoInv == TypeOK /\ Numbered

LEMMA EncodedFits ==
  ASSUME NEW phone \in Nat, NEW t \in Nat
  PROVE  encode_orderno(phone, t) \in 0..(Word - 1)
  <1>1. ((t - Epoch) % Clock) \in Int
    BY OrderNoAssumption
  <1>2. ((t - Epoch) % Clock) * PhoneSpan + (phone - Base) \in Int
    BY <1>1, OrderNoAssumption
  <1> QED BY <1>2, WordPositive DEF encode_orderno

LEMMA OrderNoInit == Init => OrderNoInv
  BY OrderNoAssumption DEF Init, OrderNoInv, TypeOK, Numbered

LEMMA OrderNoStep == OrderNoInv /\ [Next]_vars => OrderNoInv'
  <1> SUFFICES ASSUME OrderNoInv, [Next]_vars
               PROVE  OrderNoInv'
    OBVIOUS
  <1>1. ASSUME NEW phone \in Phones, CreateOrder(phone)
        PROVE  OrderNoInv'
    <2> DEFINE made == [id |-> count, phone |-> phone, created |-> now,
                        no |-> encode_orderno(phone, now)]
    <2>1. phone \in Nat /\ now \in Nat /\ count \in Nat /\ count < MaxOrders
      BY <1>1, OrderNoAssumption DEF OrderNoInv, TypeOK, CreateOrder
    <2>2. made \in Order
      BY <2>1, EncodedFits DEF Order
    <2>3. orders' = orders \cup {made} /\ count' = count + 1 /\ now' = now
      BY <1>1 DEF CreateOrder
    <2>4. TypeOK'
      BY <2>1, <2>2, <2>3, OrderNoAssumption DEF OrderNoInv, TypeOK
    <2>5. Numbered'
      BY <2>3 DEF OrderNoInv, Numbered
    <2> QED BY <2>4, <2>5 DEF OrderNoInv
  <1>2. CASE Tick
    BY <1>2, OrderNoAssumption DEF Tick, OrderNoInv, TypeOK, Numbered
  <1>3. CASE UNCHANGED vars
    BY <1>3 DEF vars, OrderNoInv, TypeOK, Numbered
  <1> QED BY <1>1, <1>2, <1>3 DEF Next

LEMMA OrderNoInvariant == Spec => []OrderNoInv
  BY OrderNoInit, OrderNoStep, PTL DEF Spec

(* The type invariant: a SYSTEM_NO fits its word, also for the numbers     *)
(* below Base that borrow from the seconds (encode_orderno, TopupUtils.cpp). *)
THEOREM NumbersTypeCorrect == Spec => []TypeOK
  BY OrderNoInvariant, PTL DEF OrderNoInv

(* For any widths of the two fields and any clock that is a multiple of    *)
(* the seconds' field, two mobile orders of one lap of the seconds share a *)
(* SYSTEM_NO only if they share phone and second (TopupUtils.cpp).         *)
THEOREM NumbersCorrect == Spec => []DistinctNumbers
  <1>1. OrderNoInv => DistinctNumbers
    <2> SUFFICES ASSUME OrderNoInv, NEW o \in orders, NEW p \in orders,
                        o.no = p.no, {o.phone, p.phone} \subseteq Mobiles,
                        o.created - p.created \in 0..(TimeSpan - 1)
                 PROVE  o.phone = p.phone /\ o.created = p.created
      BY DEF DistinctNumbers
    <2>1. o.created \in Int /\ p.created \in Int
      BY DEF OrderNoInv, TypeOK, Order
    <2>2. encode_orderno(o.phone, o.created) = encode_orderno(p.phone, p.created)
      BY DEF OrderNoInv, Numbered
    <2> QED BY <2>1, <2>2, EncodedApart
  <1> QED BY <1>1, OrderNoInvariant, PTL

(* decode_orderno gives the phone number back however often the seconds    *)
(* have overflowed (TopupUtils.cpp).                                       *)
THEOREM DecodingCorrect == Spec => []PhoneIsDecoded
  <1>1. OrderNoInv => PhoneIsDecoded
    <2> SUFFICES ASSUME OrderNoInv, NEW o \in orders, o.phone \in Mobiles
                 PROVE  decode_orderno(o.no).phoneno = o.phone
      BY DEF PhoneIsDecoded
    <2>1. o.created \in Int /\ o.no = encode_orderno(o.phone, o.created)
      BY DEF OrderNoInv, TypeOK, Order, Numbered
    <2> QED BY <2>1, Decoded
  <1> QED BY <1>1, OrderNoInvariant, PTL
=============================================================================
