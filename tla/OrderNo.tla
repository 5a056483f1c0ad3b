------------------------------ MODULE OrderNo ------------------------------
(***************************************************************************)
(* SYSTEM_NO, the key of an order in every UPDATE: the seconds since an    *)
(* epoch shifted over the phone number, in 64 bits.  The widths are        *)
(* parameters, so that small words show what the real ones do.             *)
(* (TopupUtils.cpp, ChargeBusiness.cpp.)                                   *)
(***************************************************************************)
EXTENDS Integers

CONSTANTS
    Phones,     \* the phone numbers charged
    Base,       \* the first mobile number: 10000000000
    PhoneSpan,  \* room for a phone number: 2^36
    TimeSpan,   \* room for the seconds: 2^28 (about eight and a half years)
    Clock,      \* range of the 32 bit seconds: 2^32
    Epoch,      \* 1392906485, a day of February 2014
    MaxTime,    \* bound: the last second of a behaviour
    MaxOrders   \* bound: orders created in a behaviour

ASSUME OrderNoAssumption ==
    /\ Phones \subseteq Nat
    /\ Base \in Nat /\ Epoch \in Nat /\ MaxTime \in Nat /\ MaxOrders \in Nat
    /\ Epoch <= MaxTime
    /\ PhoneSpan \in Nat \ {0} /\ TimeSpan \in Nat \ {0}
    /\ Clock \in Nat /\ \E k \in 1..Clock : Clock = k * TimeSpan

VARIABLES
    now,    \* time(NULL)
    orders, \* the orders created: who, when, and the SYSTEM_NO they were given
    count   \* how many there are

vars == <<now, orders, count>>

Word == PhoneSpan * TimeSpan

(* What fits: the eleven digit numbers that the mask leaves as they are.   *)
Mobiles == Base..(Base + PhoneSpan - 1)

(* Mutant: the time shifted one bit less than the phone number is wide.    *)
EncodeNarrow(phone, t) ==
    (((t - Epoch) % Clock) * (PhoneSpan \div 2) + (phone - Base)) % Word

(* Mutant: no overflow.                                                    *)
EncodeWide(phone, t) == ((t - Epoch) % Clock) * PhoneSpan + (phone - Base)

(* Unsigned arithmetic all through: the seconds wrap at 32 bits, the shift *)
(* drops what leaves the 64 bits, and a number below Base borrows from the *)
(* seconds.                                                                *)
encode_orderno(phone, t) ==
    (((t - Epoch) % Clock) * PhoneSpan + (phone - Base)) % Word

(* Mutant: a mask of 35 bits.                                              *)
DecodeNarrow(no) ==
    [phoneno |-> (no % (PhoneSpan \div 2)) + Base, ttime |-> no \div PhoneSpan]

decode_orderno(no) ==
    [phoneno |-> (no % PhoneSpan) + Base, ttime |-> no \div PhoneSpan]

(* CreateTmallOrder gives the order its number, unless that is zero.       *)
CreateOrder(phone) ==
    /\ count < MaxOrders
    /\ encode_orderno(phone, now) > 0
    /\ count' = count + 1
    /\ orders' = orders \cup {[id |-> count, phone |-> phone, created |-> now,
                               no |-> encode_orderno(phone, now)]}
    /\ UNCHANGED now

Tick ==
    /\ now < MaxTime
    /\ now' = now + 1
    /\ UNCHANGED <<orders, count>>

Init == now = Epoch /\ orders = {} /\ count = 0

Next == (\E phone \in Phones : CreateOrder(phone)) \/ Tick

Spec == Init /\ [][Next]_vars

(***************************************************************************)
(* Properties                                                              *)
(***************************************************************************)

Order == [id : Nat, phone : Phones, created : Nat, no : 0..(Word - 1)]

(* Type invariant; a SYSTEM_NO fits its word.                              *)
TypeOK ==
    /\ now \in Epoch..MaxTime /\ count \in 0..MaxOrders
    /\ orders \subseteq Order

(* Two mobile orders made less than TimeSpan seconds apart have one number *)
(* only if they are for one phone in one second: every UPDATE by SYSTEM_NO *)
(* reaches the row it means, but for those and for the orders made before  *)
(* the seconds last wrapped (the real ones did on 24 August 2022).         *)
DistinctNumbers ==
    \A o, p \in orders :
        /\ o.no = p.no
        /\ {o.phone, p.phone} \subseteq Mobiles
        /\ o.created - p.created \in 0..(TimeSpan - 1)
        => o.phone = p.phone /\ o.created = p.created

(* The phone number of a mobile order can be read from its SYSTEM_NO, also *)
(* after the seconds have overflowed.                                      *)
PhoneIsDecoded ==
    \A o \in orders : o.phone \in Mobiles => decode_orderno(o.no).phoneno = o.phone
=============================================================================
