-------------------------- MODULE RootDeliveryProofs --------------------------
(***************************************************************************)
(* Proofs about RootDelivery for every number of receivers, identifier,    *)
(* root, window and clock, and for every width and limit of the encoding   *)
(* under which the length of an identifier fits into its byte.             *)
(*                                                                         *)
(* First the bytes: a canonical payload is read back from them, so they    *)
(* determine it. Then the deliveries: what a receiver holds was signed and *)
(* looked at inside its window. From these follows that the matcher        *)
(* follows the announcements as RootRegister says.                         *)
(***************************************************************************)
EXTENDS RootDelivery, SequenceTheorems, TLAPS

-----------------------------------------------------------------------------
(* The bytes of a payload.                                                 *)

\* A field before the end of a concatenation stays where it is.
LEMMA FieldKept ==
  ASSUME NEW S, NEW s \in Seq(S), NEW t \in Seq(S),
         NEW m \in Nat, 1 <= m, NEW n \in Nat, n <= Len(s)
  PROVE  SubSeq(s \o t, m, n) = SubSeq(s, m, n)
  OBVIOUS

\* What was put at the end is read back there.
LEMMA FieldAppended ==
  ASSUME NEW S, NEW s \in Seq(S), NEW t \in Seq(S)
  PROVE  SubSeq(s \o t, Len(s) + 1, Len(s) + Len(t)) = t
<1>1. Len(s) \in Nat /\ Len(t) \in Nat
  OBVIOUS
<1>2. /\ s \o t \in Seq(S) /\ Len(s \o t) = Len(s) + Len(t)
      /\ \A i \in 1..Len(t) : (s \o t)[Len(s) + i] = t[i]
  BY <1>1
<1>. DEFINE u == SubSeq(s \o t, Len(s) + 1, Len(s) + Len(t))
<1>3. u \in Seq(S) /\ Len(u) = Len(t) /\ \A i \in 1..Len(t) : u[i] = t[i]
  BY <1>1, <1>2, SubSeqProperties
<1>. QED
  BY <1>3

\* One more field: it is read back, and what was read before still is.
Appended(s, t, b) ==
    /\ Len(b) = Len(s) + Len(t)
    /\ SubSeq(b, Len(s) + 1, Len(s) + Len(t)) = t
    /\ \A i \in 1..Len(s) : b[i] = s[i]
    /\ \A l, m \in Nat : 1 <= l /\ m <= Len(s) => SubSeq(b, l, m) = SubSeq(s, l, m)

LEMMA Layer ==
  ASSUME NEW S, NEW s \in Seq(S), NEW t \in Seq(S), NEW b, b = s \o t
  PROVE  /\ b \in Seq(S)
         /\ Appended(s, t, b)
<1>1. SubSeq(b, Len(s) + 1, Len(s) + Len(t)) = t
  BY FieldAppended
<1>2. \A l, m \in Nat : 1 <= l /\ m <= Len(s) => SubSeq(b, l, m) = SubSeq(s, l, m)
  BY FieldKept
<1>3. /\ b \in Seq(S) /\ Len(b) = Len(s) + Len(t)
      /\ \A i \in 1..Len(s) : b[i] = s[i]
  OBVIOUS
<1>. QED
  BY <1>1, <1>2, <1>3 DEF Appended

\* A field of one byte.
LEMMA ByteLayer ==
  ASSUME NEW S, NEW s \in Seq(S), NEW x \in S
  PROVE  (s \o <<x>>)[Len(s) + 1] = x
  OBVIOUS

\* The layout of a payload: its fields one after the other,
Layout(kind, v, f, e, l, id, root) ==
    PayloadMagic \o <<kind>> \o v \o f \o e \o <<l>> \o id \o root

\* and where each of them is.
LaidOut(b, kind, v, f, e, l, id, root) ==
    LET start == Len(PayloadMagic) + 1
        head == start + 3 * WordLen + 1
    IN /\ b[start] = kind
       /\ SubSeq(b, start + 1, start + WordLen) = v
       /\ SubSeq(b, start + WordLen + 1, start + 2 * WordLen) = f
       /\ SubSeq(b, start + 2 * WordLen + 1, start + 3 * WordLen) = e
       /\ b[head] = l
       /\ SubSeq(b, head + 1, head + Len(id)) = id
       /\ SubSeq(b, head + Len(id) + 1, Len(b)) = root

\* Every field is where it belongs, whatever the fields are.
LEMMA FieldsAreLaidOut ==
  ASSUME NEW kind \in Byte, NEW v \in Seq(Byte), NEW f \in Seq(Byte), NEW e \in Seq(Byte),
         Len(v) = WordLen, Len(f) = WordLen, Len(e) = WordLen,
         NEW l \in Byte, NEW id \in Seq(Byte), NEW root \in Seq(Byte)
  PROVE  LaidOut(Layout(kind, v, f, e, l, id, root), kind, v, f, e, l, id, root)
<1>0. PICK p0, p1, p2, p3, p4, p5 :
        /\ p0 = Len(PayloadMagic) + 1
        /\ p1 = p0 + WordLen /\ p2 = p0 + 2 * WordLen /\ p3 = p0 + 3 * WordLen
        /\ p4 = p0 + 3 * WordLen + 1 /\ p5 = p4 + Len(id)
  OBVIOUS
<1>1. /\ PayloadMagic \in Seq(Byte) /\ <<kind>> \in Seq(Byte) /\ <<l>> \in Seq(Byte)
      /\ Len(<<kind>>) = 1 /\ Len(<<l>>) = 1
      /\ kind \in Byte /\ v \in Seq(Byte) /\ f \in Seq(Byte) /\ e \in Seq(Byte)
      /\ l \in Byte /\ id \in Seq(Byte) /\ root \in Seq(Byte)
      /\ Len(v) = WordLen /\ Len(f) = WordLen /\ Len(e) = WordLen
  BY RootEnvelopeAssumption
<1>2. /\ p0 = Len(PayloadMagic) + 1 /\ p1 = p0 + WordLen /\ p2 = p1 + WordLen
      /\ p3 = p2 + WordLen /\ p4 = p3 + 1 /\ p5 = p4 + Len(id)
  BY <1>0, RootEnvelopeAssumption
<1>3. /\ p0 \in Nat /\ p1 \in Nat /\ p2 \in Nat /\ p3 \in Nat /\ p4 \in Nat /\ p5 \in Nat
      /\ 1 <= p0 /\ p0 <= p1 /\ p1 <= p2 /\ p2 <= p3 /\ p3 <= p4 /\ p4 <= p5
  BY <1>0, RootEnvelopeAssumption
<1>4. /\ p0 <= p2 /\ p0 <= p3 /\ p0 <= p4 /\ p0 <= p5 /\ p1 <= p3 /\ p1 <= p4 /\ p1 <= p5
      /\ p2 <= p4 /\ p2 <= p5 /\ p3 <= p5 /\ 1 <= p4
      /\ p0 <= p0 /\ p1 <= p1 /\ p2 <= p2 /\ p3 <= p3 /\ p4 <= p4 /\ p5 <= p5
      /\ p0 + 1 \in Nat /\ 1 <= p0 + 1 /\ p1 + 1 \in Nat /\ 1 <= p1 + 1
      /\ p2 + 1 \in Nat /\ 1 <= p2 + 1 /\ p4 + 1 \in Nat /\ 1 <= p4 + 1
  BY <1>3
<1>5. PICK b0 : b0 = PayloadMagic \o <<kind>>
  OBVIOUS
<1>6. PICK b1 : b1 = b0 \o v
  OBVIOUS
<1>7. PICK b2 : b2 = b1 \o f
  OBVIOUS
<1>8. PICK b3 : b3 = b2 \o e
  OBVIOUS
<1>9. PICK b4 : b4 = b3 \o <<l>>
  OBVIOUS
<1>10. PICK b5 : b5 = b4 \o id
  OBVIOUS
<1>11. PICK b6 : b6 = b5 \o root
  OBVIOUS
<1>12. b0 \in Seq(Byte) /\ Len(b0) = p0 /\ b0[p0] = kind
  BY <1>1, <1>2, <1>5
<1>13. /\ b1 \in Seq(Byte) /\ Len(b1) = p1
       /\ b1[p0] = kind
       /\ SubSeq(b1, p0 + 1, p1) = v
  <2>1. b1 \in Seq(Byte) /\ Appended(b0, v, b1)
    BY <1>1, <1>6, <1>12, Layer
  <2>2. Len(b1) = p1
    BY <1>1, <1>2, <1>12, <2>1 DEF Appended
  <2>3. SubSeq(b1, p0 + 1, p1) = v
    BY <1>1, <1>2, <1>12, <2>1 DEF Appended
  <2>4. /\ \A i \in Nat : 1 <= i /\ i <= p0 => b1[i] = b0[i]
        /\ \A i, j \in Nat : 1 <= i /\ j <= p0 =>
              SubSeq(b1, i, j) = SubSeq(b0, i, j)
    <3>1. Len(b0) = p0 /\ p0 \in Nat
      BY <1>3, <1>12
    <3>. QED
      BY <2>1, <3>1 DEF Appended
  <2>5. b1[p0] = kind
    BY <1>3, <1>4, <1>12, <2>4
  <2>. QED
    BY <2>1, <2>2, <2>3, <2>5
<1>14. /\ b2 \in Seq(Byte) /\ Len(b2) = p2
       /\ b2[p0] = kind
       /\ SubSeq(b2, p0 + 1, p1) = v
       /\ SubSeq(b2, p1 + 1, p2) = f
  <2>1. b2 \in Seq(Byte) /\ Appended(b1, f, b2)
    BY <1>1, <1>7, <1>13, Layer
  <2>2. Len(b2) = p2
    BY <1>1, <1>2, <1>13, <2>1 DEF Appended
  <2>3. SubSeq(b2, p1 + 1, p2) = f
    BY <1>1, <1>2, <1>13, <2>1 DEF Appended
  <2>4. /\ \A i \in Nat : 1 <= i /\ i <= p1 => b2[i] = b1[i]
        /\ \A i, j \in Nat : 1 <= i /\ j <= p1 =>
              SubSeq(b2, i, j) = SubSeq(b1, i, j)
    <3>1. Len(b1) = p1 /\ p1 \in Nat
      BY <1>3, <1>13
    <3>. QED
      BY <2>1, <3>1 DEF Appended
  <2>5. b2[p0] = kind
    BY <1>3, <1>4, <1>13, <2>4
  <2>6. SubSeq(b2, p0 + 1, p1) = v
    BY <1>3, <1>4, <1>13, <2>4
  <2>. QED
    BY <2>1, <2>2, <2>3, <2>5, <2>6
<1>15. /\ b3 \in Seq(Byte) /\ Len(b3) = p3
       /\ b3[p0] = kind
       /\ SubSeq(b3, p0 + 1, p1) = v
       /\ SubSeq(b3, p1 + 1, p2) = f
       /\ SubSeq(b3, p2 + 1, p3) = e
  <2>1. b3 \in Seq(Byte) /\ Appended(b2, e, b3)
    BY <1>1, <1>8, <1>14, Layer
  <2>2. Len(b3) = p3
    BY <1>1, <1>2, <1>14, <2>1 DEF Appended
  <2>3. SubSeq(b3, p2 + 1, p3) = e
    BY <1>1, <1>2, <1>14, <2>1 DEF Appended
  <2>4. /\ \A i \in Nat : 1 <= i /\ i <= p2 => b3[i] = b2[i]
        /\ \A i, j \in Nat : 1 <= i /\ j <= p2 =>
              SubSeq(b3, i, j) = SubSeq(b2, i, j)
    <3>1. Len(b2) = p2 /\ p2 \in Nat
      BY <1>3, <1>14
    <3>. QED
      BY <2>1, <3>1 DEF Appended
  <2>5. b3[p0] = kind
    BY <1>3, <1>4, <1>14, <2>4
  <2>6. /\ SubSeq(b3, p0 + 1, p1) = v
        /\ SubSeq(b3, p1 + 1, p2) = f
    BY <1>3, <1>4, <1>14, <2>4
  <2>. QED
    BY <2>1, <2>2, <2>3, <2>5, <2>6
<1>16. /\ b4 \in Seq(Byte) /\ Len(b4) = p4
       /\ b4[p0] = kind
       /\ SubSeq(b4, p0 + 1, p1) = v
       /\ SubSeq(b4, p1 + 1, p2) = f
       /\ SubSeq(b4, p2 + 1, p3) = e
       /\ b4[p4] = l
  <2>1. b4 \in Seq(Byte) /\ Appended(b3, <<l>>, b4)
    BY <1>1, <1>9, <1>15, Layer
  <2>2. Len(b4) = p4
    BY <1>1, <1>2, <1>15, <2>1 DEF Appended
  <2>3. b4[p4] = l
    <3>1. b3 \in Seq(Byte) /\ Len(b3) = p3 /\ l \in Byte
      BY <1>1, <1>15
    <3>2. (b3 \o <<l>>)[Len(b3) + 1] = l
      BY <3>1, ByteLayer
    <3>. QED
      BY <1>2, <1>9, <3>1, <3>2
  <2>4. /\ \A i \in Nat : 1 <= i /\ i <= p3 => b4[i] = b3[i]
        /\ \A i, j \in Nat : 1 <= i /\ j <= p3 =>
              SubSeq(b4, i, j) = SubSeq(b3, i, j)
    <3>1. Len(b3) = p3 /\ p3 \in Nat
      BY <1>3, <1>15
    <3>. QED
      BY <2>1, <3>1 DEF Appended
  <2>5. b4[p0] = kind
    BY <1>3, <1>4, <1>15, <2>4
  <2>6. /\ SubSeq(b4, p0 + 1, p1) = v
        /\ SubSeq(b4, p1 + 1, p2) = f
        /\ SubSeq(b4, p2 + 1, p3) = e
    BY <1>3, <1>4, <1>15, <2>4
  <2>. QED
    BY <2>1, <2>2, <2>3, <2>5, <2>6
<1>17. /\ b5 \in Seq(Byte) /\ Len(b5) = p5
       /\ b5[p0] = kind
       /\ SubSeq(b5, p0 + 1, p1) = v
       /\ SubSeq(b5, p1 + 1, p2) = f
       /\ SubSeq(b5, p2 + 1, p3) = e
       /\ b5[p4] = l
       /\ SubSeq(b5, p4 + 1, p5) = id
  <2>1. b5 \in Seq(Byte) /\ Appended(b4, id, b5)
    BY <1>1, <1>10, <1>16, Layer
  <2>2. Len(b5) = p5
    BY <1>1, <1>2, <1>16, <2>1 DEF Appended
  <2>3. SubSeq(b5, p4 + 1, p5) = id
    BY <1>1, <1>2, <1>16, <2>1 DEF Appended
  <2>4. /\ \A i \in Nat : 1 <= i /\ i <= p4 => b5[i] = b4[i]
        /\ \A i, j \in Nat : 1 <= i /\ j <= p4 =>
              SubSeq(b5, i, j) = SubSeq(b4, i, j)
    <3>1. Len(b4) = p4 /\ p4 \in Nat
      BY <1>3, <1>16
    <3>. QED
      BY <2>1, <3>1 DEF Appended
  <2>5. b5[p0] = kind /\ b5[p4] = l
    BY <1>3, <1>4, <1>16, <2>4
  <2>6. /\ SubSeq(b5, p0 + 1, p1) = v
        /\ SubSeq(b5, p1 + 1, p2) = f
        /\ SubSeq(b5, p2 + 1, p3) = e
    BY <1>3, <1>4, <1>16, <2>4
  <2>. QED
    BY <2>1, <2>2, <2>3, <2>5, <2>6
<1>18. /\ b6 \in Seq(Byte) /\ Len(b6) = p5 + Len(root)
       /\ b6[p0] = kind
       /\ SubSeq(b6, p0 + 1, p1) = v
       /\ SubSeq(b6, p1 + 1, p2) = f
       /\ SubSeq(b6, p2 + 1, p3) = e
       /\ b6[p4] = l
       /\ SubSeq(b6, p4 + 1, p5) = id
       /\ SubSeq(b6, p5 + 1, Len(b6)) = root
  <2>1. b6 \in Seq(Byte) /\ Appended(b5, root, b6)
    BY <1>1, <1>11, <1>17, Layer
  <2>2. Len(b6) = p5 + Len(root)
    BY <1>1, <1>2, <1>17, <2>1 DEF Appended
  <2>3. SubSeq(b6, p5 + 1, Len(b6)) = root
    BY <1>1, <1>2, <1>17, <2>1, <2>2 DEF Appended
  <2>4. /\ \A i \in Nat : 1 <= i /\ i <= p5 => b6[i] = b5[i]
        /\ \A i, j \in Nat : 1 <= i /\ j <= p5 =>
              SubSeq(b6, i, j) = SubSeq(b5, i, j)
    <3>1. Len(b5) = p5 /\ p5 \in Nat
      BY <1>3, <1>17
    <3>. QED
      BY <2>1, <3>1 DEF Appended
  <2>5. b6[p0] = kind /\ b6[p4] = l
    BY <1>3, <1>4, <1>17, <2>4
  <2>6. /\ SubSeq(b6, p0 + 1, p1) = v
        /\ SubSeq(b6, p1 + 1, p2) = f
        /\ SubSeq(b6, p2 + 1, p3) = e
        /\ SubSeq(b6, p4 + 1, p5) = id
    BY <1>3, <1>4, <1>17, <2>4
  <2>. QED
    BY <2>1, <2>2, <2>3, <2>5, <2>6
<1>19. b6 = Layout(kind, v, f, e, l, id, root)
  BY <1>1, <1>5, <1>6, <1>7, <1>8, <1>9, <1>10, <1>11 DEF Layout
<1>. QED
  BY <1>18, <1>19, <1>0 DEF LaidOut

\* No number is lost in its bytes.
LEMMA WordReadBack ==
  ASSUME NEW n \in U64
  PROVE  FromBeBytes(ToBeBytes[n]) = n
  BY RootEnvelopeAssumption DEF FromBeBytes

\* The remainder of a number below the modulus.
LEMMA SmallRemainder ==
  ASSUME NEW n \in Nat, NEW d \in Nat, n < d
  PROVE  n % d = n
  OBVIOUS

\* The fields of a payload as byte strings: the fixed ones have their widths, and
\* the length of an identifier that a constructor let through fits into a byte.
LEMMA FieldWidths ==
  ASSUME NEW p \in IssuerRootPayload \cup CredentialRootPayload
  PROVE  /\ p.kind \in Byte
         /\ p.root \in Seq(Byte) /\ Len(p.root) = RootLen
         /\ p.id \in Seq(Byte) /\ Len(p.id) \in Nat
         /\ IdLen(p.id) = Len(p.id) /\ IdLen(p.id) \in Byte
         /\ \A n \in {p.version, p.valid_from, p.expires_at} :
               n \in U64 /\ ToBeBytes[n] \in Seq(Byte) /\ Len(ToBeBytes[n]) = WordLen
<1>. USE RootEnvelopeAssumption
<1>1. /\ p.kind \in Byte /\ p.root \in BytesOf(RootLen)
      /\ p.version \in U64 /\ p.valid_from \in U64 /\ p.expires_at \in U64
      /\ p.id \in KeyIdentifier
  BY DEF IssuerRootPayload, CredentialRootPayload, IssuerKeyId, AuthorityKeyId, Kinds
<1>2. ASSUME NEW n \in Nat, NEW b \in BytesOf(n)
      PROVE  b \in Seq(Byte) /\ Len(b) = n
  BY <1>2 DEF BytesOf
<1>3. PICK n \in 1..KeyIdentifierMaxLen : p.id \in BytesOf(n)
  BY <1>1 DEF KeyIdentifier
<1>4. p.id \in Seq(Byte) /\ Len(p.id) = n /\ n \in Nat /\ n < ByteValues
  BY <1>2, <1>3 DEF Byte
<1>5. IdLen(p.id) = n /\ n \in Byte
  <2>1. ByteValues \in Nat
    OBVIOUS
  <2>2. n % ByteValues = n
    BY <1>4, <2>1, SmallRemainder
  <2>. QED
    BY <1>4, <2>1, <2>2 DEF IdLen, Byte
<1>. QED
  BY <1>1, <1>2, <1>4, <1>5

\* The layout of envelope.rs reads back: from the bytes that are signed the kind
\* and every field is known, for identifiers of any length a constructor accepts.
THEOREM PayloadsReadBack ==
  ASSUME NEW p \in IssuerRootPayload \cup CredentialRootPayload
  PROVE  Decode(CanonicalBytes(p)) = p
<1>. DEFINE v == ToBeBytes[p.version]
            f == ToBeBytes[p.valid_from]
            e == ToBeBytes[p.expires_at]
            b == CanonicalBytes(p)
            start == Len(PayloadMagic) + 1
<1>1. b = Layout(p.kind, v, f, e, IdLen(p.id), p.id, p.root)
  BY DEF CanonicalBytes, IssuerCanonicalBytes, CredentialCanonicalBytes, EncodePayload,
         IssuerRootPayload, CredentialRootPayload, KindIssuer, KindCredential, Layout
<1>2. LaidOut(b, p.kind, v, f, e, IdLen(p.id), p.id, p.root)
  <2>1. /\ p.kind \in Byte /\ IdLen(p.id) \in Byte
        /\ p.id \in Seq(Byte) /\ p.root \in Seq(Byte)
    BY FieldWidths
  <2>2. /\ v \in Seq(Byte) /\ Len(v) = WordLen /\ f \in Seq(Byte) /\ Len(f) = WordLen
        /\ e \in Seq(Byte) /\ Len(e) = WordLen
    BY FieldWidths
  <2>. HIDE DEF v, f, e, b
  <2>. QED
    BY <1>1, <2>1, <2>2, FieldsAreLaidOut
<1>3. /\ start + (1 - 1) * WordLen + 1 = start + 1
      /\ start + 1 * WordLen = start + WordLen
      /\ start + (2 - 1) * WordLen + 1 = start + WordLen + 1
      /\ start + (3 - 1) * WordLen + 1 = start + 2 * WordLen + 1
  BY RootEnvelopeAssumption
<1>4. IdLen(p.id) = Len(p.id)
  BY FieldWidths
<1>. HIDE DEF v, f, e, b, start
<1>5. Decode(b) =
         [kind |-> p.kind, version |-> FromBeBytes(v), valid_from |-> FromBeBytes(f),
          expires_at |-> FromBeBytes(e), id |-> p.id, root |-> p.root]
  BY <1>2, <1>3, <1>4 DEF Decode, LaidOut, start
<1>6. /\ FromBeBytes(v) = p.version /\ FromBeBytes(f) = p.valid_from
      /\ FromBeBytes(e) = p.expires_at
  BY FieldWidths, WordReadBack DEF v, f, e
<1>7. p = [kind |-> p.kind, version |-> p.version, valid_from |-> p.valid_from,
           expires_at |-> p.expires_at, id |-> p.id, root |-> p.root]
  BY DEF IssuerRootPayload, CredentialRootPayload
<1>. QED
  BY <1>5, <1>6, <1>7 DEF b

\* No two payloads share their bytes: a signature is for one payload only.
COROLLARY BytesDetermineThePayload ==
  ASSUME NEW p \in IssuerRootPayload \cup CredentialRootPayload,
         NEW q \in IssuerRootPayload \cup CredentialRootPayload,
         CanonicalBytes(p) = CanonicalBytes(q)
  PROVE  p = q
<1>1. Decode(CanonicalBytes(p)) = p /\ Decode(CanonicalBytes(q)) = q
  BY PayloadsReadBack
<1>. QED
  BY <1>1

-----------------------------------------------------------------------------
(* What the constructors let through.                                      *)

\* The `?` of the source: of two checks both have passed.
LEMMA BothPassed ==
  ASSUME NEW x, NEW y, FirstProblem(<<x, y>>) = "Ok"
  PROVE  x = "Ok" /\ y = "Ok"
<1>. DEFINE results == <<x, y>>
            problems == {i \in DOMAIN results : results[i] # "Ok"}
<1>1. DOMAIN results = {1, 2} /\ results[1] = x /\ results[2] = y
  OBVIOUS
<1>2. CASE problems = {}
  BY <1>1, <1>2
<1>3. CASE problems # {}
  <2>1. \E i \in problems : \A j \in problems : i <= j
    <3>1. CASE 1 \in problems
      BY <1>1, <3>1
    <3>2. CASE 1 \notin problems
      BY <1>1, <1>3, <3>2
    <3>. QED
      BY <3>1, <3>2
  <2>2. (CHOOSE i \in problems : \A j \in problems : i <= j) \in problems
    BY <2>1
  <2>. QED
    BY <1>3, <2>2 DEF FirstProblem
<1>. QED
  BY <1>2, <1>3

\* A payload of the model is one the source's types and constructors allow.
LEMMA PayloadsAreAccepted ==
  ASSUME NEW p \in Payload
  PROVE  /\ p \in RootPayload
         /\ p \in IssuerRootPayload \cup CredentialRootPayload
         /\ p.valid_from \in Instants /\ p.expires_at \in Instants
         /\ Register!SlotOf(p) \in Slots
<1>1. /\ p \in [kind : Kinds, root : Roots, id : Identifiers, version : 0..MaxVersion,
                valid_from : Instants, expires_at : Instants]
      /\ FirstProblem(<<KeyIdentifierNew(p.id), PayloadNew(p)>>) = "Ok"
  BY DEF Payload, RawPayload
<1>2. KeyIdentifierNew(p.id) = "Ok" /\ PayloadNew(p) = "Ok"
  BY <1>1, BothPassed
<1>3. /\ p.kind \in Kinds /\ p.root \in BytesOf(RootLen) /\ p.id \in Seq(Byte)
      /\ p.version \in U64 /\ p.valid_from \in U64 /\ p.expires_at \in U64
      /\ p.valid_from \in Instants /\ p.expires_at \in Instants
  BY <1>1, RootDeliveryAssumption DEF Instants
<1>4. p.id \in KeyIdentifier
  <2>1. Len(p.id) \in Nat /\ p.id \in [1..Len(p.id) -> Byte]
    BY <1>3
  <2>2. Len(p.id) # 0 /\ ~(Len(p.id) > KeyIdentifierMaxLen)
    BY <1>2 DEF KeyIdentifierNew
  <2>3. Len(p.id) \in 1..KeyIdentifierMaxLen
    BY <2>1, <2>2, RootEnvelopeAssumption DEF Byte
  <2>. QED
    BY <2>1, <2>3 DEF KeyIdentifier, BytesOf
<1>5. RootMetadataNew(p.version, p.valid_from, p.expires_at) = "Ok"
  BY <1>2 DEF PayloadNew, IssuerRootPayloadNew, CredentialRootPayloadNew
<1>6. p \in IssuerRootPayload \cup CredentialRootPayload
  BY <1>1, <1>3, <1>4
     DEF IssuerRootPayload, CredentialRootPayload, IssuerKeyId, AuthorityKeyId, Kinds
<1>7. Register!SlotOf(p) \in Slots
  BY <1>3 DEF Slots, Register!SlotOf
<1>. QED
  BY <1>3, <1>5, <1>6, <1>7 DEF RootPayload

\* An envelope that verifies carries a payload its authority signed, whatever it
\* was put together from.
LEMMA AuthenticMeansPublished ==
  ASSUME published \subseteq Payload,
         NEW signature \in Signatures, NEW envelope \in Authentic(signature)
  PROVE  envelope.payload \in published
<1>1. PICK w \in Written : /\ w.payload \in published
                           /\ signature = [length |-> 1, key |-> w.payload.id, over |-> w.bytes]
  BY DEF Signatures
<1>2. PICK u \in Written : /\ u.bytes = signature.over
                           /\ envelope = EnvelopeOf(u.payload, signature)
  BY DEF Authentic
<1>3. /\ w.payload \in Payload /\ w.bytes = CanonicalBytes(w.payload)
      /\ u.payload \in Payload /\ u.bytes = CanonicalBytes(u.payload)
  BY DEF Written
<1>4. CanonicalBytes(u.payload) = CanonicalBytes(w.payload)
  BY <1>1, <1>2, <1>3
<1>5. u.payload = w.payload
  BY <1>3, <1>4, PayloadsAreAccepted, BytesDetermineThePayload
<1>6. envelope.payload = u.payload
  BY <1>2 DEF EnvelopeOf, IssuerRootEnvelope, CredentialRootEnvelope
<1>. QED
  BY <1>1, <1>5, <1>6

\* A structure that is valid at an instant has that instant in its window.
LEMMA ValidMeansInside ==
  ASSUME NEW envelope, NEW now \in Nat,
         envelope.payload.valid_from \in Nat, envelope.payload.expires_at \in Nat,
         ValidateStructureAt(envelope, now) = "Ok"
  PROVE  envelope.payload.valid_from <= now /\ now <= envelope.payload.expires_at
<1>1. Contains(envelope.payload, now) = "Ok"
  BY DEF ValidateStructureAt, IssuerEnvelopeValidAt, CredentialEnvelopeValidAt,
         IssuerPayloadValidAt, CredentialPayloadValidAt, EnsureCurrentAt
<1>2. ~(now < envelope.payload.valid_from) /\ ~(now > envelope.payload.expires_at)
  BY <1>1 DEF Contains
<1>. QED
  BY <1>2

-----------------------------------------------------------------------------
(* The deliveries.                                                         *)

\* The window is looked at when an envelope is received, the root is adopted
\* later: in between the receiver remembers when it looked, and the clock has not
\* gone on by more than MaxStaleness.
HeldInside(h) ==
    /\ h.payload \in published
    /\ h.payload.valid_from <= h.at /\ h.at <= h.payload.expires_at
    /\ h.at <= clock /\ clock <= h.at + MaxStaleness

DeliveryInv ==
    /\ published \subseteq Payload
    /\ held \in [Receivers -> [payload : Payload, at : Instants] \cup {Nothing}]
    /\ current \in [Slots -> Payload \cup {Nothing}]
    /\ clock \in Instants
    /\ \A r \in Receivers : held[r] # Nothing => HeldInside(held[r])
    /\ RootsInUseWereSigned

LEMMA InitDelivery ==
  ASSUME Init
  PROVE  DeliveryInv
<1>. USE DEF Init, Register!Init
<1>1. /\ published \subseteq Payload
      /\ held \in [Receivers -> [payload : Payload, at : Instants] \cup {Nothing}]
      /\ current \in [Slots -> Payload \cup {Nothing}]
      /\ \A r \in Receivers : held[r] = Nothing
      /\ \A s \in Slots : current[s] = Nothing
  OBVIOUS
<1>2. clock \in Instants
  BY RootDeliveryAssumption DEF Instants
<1>. QED
  BY <1>1, <1>2 DEF DeliveryInv, RootsInUseWereSigned

\* An authority signs once more.
LEMMA PublishKeeps ==
  ASSUME DeliveryInv, NEW p \in Payload, Publish(p)
  PROVE  DeliveryInv'
<1>1. /\ published' = published \cup {p}
      /\ UNCHANGED <<held, current, clock>>
  BY DEF Publish, Register!Publish
<1>2. \A r \in Receivers : held'[r] # Nothing => HeldInside(held[r])'
  BY <1>1 DEF DeliveryInv, HeldInside
<1>3. RootsInUseWereSigned'
  BY <1>1 DEF DeliveryInv, RootsInUseWereSigned
<1>. QED
  BY <1>1, <1>2, <1>3 DEF DeliveryInv

\* What a receiver takes in was signed, and it looked inside the window.
LEMMA ReceiveKeeps ==
  ASSUME DeliveryInv, NEW r \in Receivers, NEW signature \in Signatures,
         NEW envelope \in Authentic(signature), Receive(r, envelope)
  PROVE  DeliveryInv'
<1>. DEFINE h == [payload |-> envelope.payload, at |-> clock]
<1>1. /\ held' = [held EXCEPT ![r] = h]
      /\ UNCHANGED <<published, current, clock>>
      /\ ValidateStructureAt(envelope, clock) = "Ok"
  BY DEF Receive
<1>2. envelope.payload \in published /\ envelope.payload \in Payload
  BY AuthenticMeansPublished DEF DeliveryInv
<1>3. /\ clock \in Nat /\ clock \in Instants
      /\ envelope.payload.valid_from \in Nat /\ envelope.payload.expires_at \in Nat
  BY <1>2, PayloadsAreAccepted, RootDeliveryAssumption DEF DeliveryInv, Instants
<1>4. envelope.payload.valid_from <= clock /\ clock <= envelope.payload.expires_at
  BY <1>1, <1>3, ValidMeansInside
<1>5. clock <= clock /\ clock <= clock + MaxStaleness
  BY <1>3, RootDeliveryAssumption
<1>6. HeldInside(h)
  BY <1>2, <1>4, <1>5 DEF HeldInside
<1>7. h \in [payload : Payload, at : Instants]
  BY <1>2, <1>3
<1>. HIDE DEF h
<1>8. held' \in [Receivers -> [payload : Payload, at : Instants] \cup {Nothing}]
  BY <1>1, <1>7 DEF DeliveryInv
<1>9. ASSUME NEW q \in Receivers, held'[q] # Nothing
      PROVE  HeldInside(held[q])'
  <2>1. HeldInside(held'[q])
    BY <1>1, <1>6, <1>9 DEF DeliveryInv
  <2>. QED
    BY <1>1, <2>1 DEF HeldInside
<1>10. RootsInUseWereSigned'
  BY <1>1 DEF DeliveryInv, RootsInUseWereSigned
<1>. QED
  BY <1>1, <1>8, <1>9, <1>10 DEF DeliveryInv

\* A receiver lets go of what it holds.
LEMMA LettingGoKeeps ==
  ASSUME DeliveryInv, NEW r \in Receivers, held' = [held EXCEPT ![r] = Nothing],
         UNCHANGED <<published, clock>>
  PROVE  /\ held' \in [Receivers -> [payload : Payload, at : Instants] \cup {Nothing}]
         /\ \A q \in Receivers : held'[q] # Nothing => HeldInside(held[q])'
<1>1. held' \in [Receivers -> [payload : Payload, at : Instants] \cup {Nothing}]
  BY DEF DeliveryInv
<1>2. ASSUME NEW q \in Receivers, held'[q] # Nothing
      PROVE  HeldInside(held[q])'
  <2>1. held'[q] = held[q] /\ HeldInside(held[q])
    BY <1>2 DEF DeliveryInv
  <2>. QED
    BY <2>1 DEF HeldInside
<1>. QED
  BY <1>1, <1>2

\* What is adopted is what the receiver holds.
LEMMA FinishedWhatItHeld ==
  ASSUME DeliveryInv, NEW r \in Receivers, held[r] # Nothing
  PROVE  LET p == held[r].payload IN
         /\ p \in published /\ p \in Payload /\ Register!SlotOf(p) \in Slots
         /\ p.valid_from <= clock
         /\ clock <= p.expires_at + MaxStaleness
<1>. DEFINE h == held[r]
<1>1. h \in [payload : Payload, at : Instants] /\ HeldInside(h)
  BY DEF DeliveryInv
<1>. HIDE DEF h
<1>2. /\ h.payload \in published /\ h.payload \in Payload
      /\ Register!SlotOf(h.payload) \in Slots
  BY <1>1, PayloadsAreAccepted DEF HeldInside
<1>3. /\ h.payload.valid_from \in Nat /\ h.payload.expires_at \in Nat /\ h.at \in Nat
      /\ clock \in Nat /\ MaxStaleness \in Nat
  BY <1>1, <1>2, PayloadsAreAccepted, RootDeliveryAssumption DEF Instants, DeliveryInv
<1>4. /\ h.payload.valid_from <= clock
      /\ clock <= h.payload.expires_at + MaxStaleness
  BY <1>1, <1>3 DEF HeldInside
<1>. QED
  BY <1>2, <1>4 DEF h

LEMMA FinishKeeps ==
  ASSUME DeliveryInv, NEW r \in Receivers, Finish(r)
  PROVE  DeliveryInv'
<1>. DEFINE p == held[r].payload
            s == Register!SlotOf(p)
<1>1. /\ held[r] # Nothing /\ held' = [held EXCEPT ![r] = Nothing]
      /\ UNCHANGED <<published, clock>>
      /\ current' = [current EXCEPT ![s] = p] \/ current' = current
  BY DEF Finish
<1>2. p \in published /\ p \in Payload /\ s \in Slots
  BY <1>1, FinishedWhatItHeld
<1>3. s = Register!SlotOf(p)
  OBVIOUS
<1>. HIDE DEF p, s
<1>4. current' \in [Slots -> Payload \cup {Nothing}]
  BY <1>1, <1>2 DEF DeliveryInv
<1>5. RootsInUseWereSigned'
  <2>1. SUFFICES ASSUME NEW t \in Slots, current'[t] # Nothing
                 PROVE  current'[t] \in published /\ Register!SlotOf(current'[t]) = t
    BY <1>1 DEF RootsInUseWereSigned, Register!SlotOf
  <2>2. current'[t] = current[t] \/ (t = s /\ current'[t] = p)
    BY <1>1 DEF DeliveryInv
  <2>. QED
    BY <1>2, <1>3, <2>1, <2>2 DEF DeliveryInv, RootsInUseWereSigned
<1>. QED
  BY <1>1, <1>4, <1>5, LettingGoKeeps DEF DeliveryInv

LEMMA CrashKeeps ==
  ASSUME DeliveryInv, NEW r \in Receivers, Crash(r)
  PROVE  DeliveryInv'
<1>1. held' = [held EXCEPT ![r] = Nothing] /\ UNCHANGED <<published, current, clock>>
  BY DEF Crash
<1>2. RootsInUseWereSigned'
  BY <1>1 DEF DeliveryInv, RootsInUseWereSigned
<1>. QED
  BY <1>1, <1>2, LettingGoKeeps DEF DeliveryInv

\* The clock waits for receivers that are about to hold something for too long.
LEMMA TickKeeps ==
  ASSUME DeliveryInv, Tick
  PROVE  DeliveryInv'
<1>1. /\ clock < MaxTime /\ clock' = clock + 1
      /\ \A r \in Receivers : held[r] # Nothing => clock - held[r].at < MaxStaleness
      /\ UNCHANGED <<published, held, current>>
  BY DEF Tick
<1>2. clock' \in Instants
  BY <1>1, RootDeliveryAssumption DEF DeliveryInv, Instants
<1>3. ASSUME NEW r \in Receivers, held'[r] # Nothing
      PROVE  HeldInside(held[r])'
  <2>. DEFINE h == held[r]
  <2>1. h \in [payload : Payload, at : Instants] /\ HeldInside(h)
    BY <1>1, <1>3 DEF DeliveryInv
  <2>2. clock - h.at < MaxStaleness
    BY <1>1, <1>3
  <2>3. h' = h
    BY <1>1
  <2>. HIDE DEF h
  <2>4. h.at \in Nat /\ clock \in Nat /\ MaxStaleness \in Nat
    BY <2>1, RootDeliveryAssumption DEF DeliveryInv, Instants
  <2>5. h.at <= clock' /\ clock' <= h.at + MaxStaleness
    BY <1>1, <2>1, <2>2, <2>4 DEF HeldInside
  <2>6. HeldInside(h)'
    BY <1>1, <2>1, <2>3, <2>5 DEF HeldInside
  <2>. QED
    BY <2>6 DEF h
<1>4. RootsInUseWereSigned'
  BY <1>1 DEF DeliveryInv, RootsInUseWereSigned
<1>. QED
  BY <1>1, <1>2, <1>3, <1>4 DEF DeliveryInv

LEMMA NextKeepsDelivery ==
  ASSUME DeliveryInv, [Next]_vars
  PROVE  DeliveryInv'
<1>1. CASE \E p \in Payload : Publish(p)
  BY <1>1, PublishKeeps
<1>2. CASE \E r \in Receivers : \E signature \in Signatures :
              \E envelope \in Authentic(signature) : Receive(r, envelope)
  BY <1>2, ReceiveKeeps
<1>3. CASE \E r \in Receivers : Finish(r)
  BY <1>3, FinishKeeps
<1>4. CASE \E r \in Receivers : Crash(r)
  BY <1>4, CrashKeeps
<1>5. CASE Tick
  BY <1>5, TickKeeps
<1>6. CASE UNCHANGED vars
  BY <1>6 DEF vars, DeliveryInv, HeldInside, RootsInUseWereSigned, Register!SlotOf
<1>. QED
  BY <1>1, <1>2, <1>3, <1>4, <1>5, <1>6 DEF Next

LEMMA DeliveryInvariance == Spec => []DeliveryInv
  BY InitDelivery, NextKeepsDelivery, PTL DEF Spec

\* Nothing comes into use that was not signed for that use: the matcher's roots
\* were signed by their authority as roots of their kind, under any delivery.
THEOREM RootDeliverySafe == Spec => []RootDeliveryInv
<1>1. ASSUME DeliveryInv
      PROVE  RootDeliveryInv
  <2>1. Payload \subseteq RootPayload
    BY PayloadsAreAccepted
  <2>2. RootDeliveryTypeOK
    BY <1>1, <2>1 DEF DeliveryInv, RootDeliveryTypeOK
  <2>3. SignedBytesDecode
    BY <1>1, PayloadsAreAccepted, PayloadsReadBack DEF DeliveryInv, SignedBytesDecode
  <2>. QED
    BY <1>1, <2>2, <2>3 DEF DeliveryInv, RootDeliveryInv
<1>. QED
  BY <1>1, DeliveryInvariance, PTL

\* A root comes into use inside its window, up to the staleness of the check.
THEOREM AdoptionIsTimely == Spec => AdoptedInsideItsWindow
<1>1. ASSUME DeliveryInv, [Next]_vars, NEW s \in Slots, current'[s] # current[s]
      PROVE  /\ current'[s].valid_from <= clock
             /\ clock <= current'[s].expires_at + MaxStaleness
  <2>1. current' # current
    BY <1>1
  <2>2. PICK r \in Receivers : Finish(r)
    BY <1>1, <2>1 DEF Next, Publish, Register!Publish, Receive, Crash, Tick, vars
  <2>. DEFINE p == held[r].payload
  <2>3. held[r] # Nothing /\ current' = [current EXCEPT ![Register!SlotOf(p)] = p]
    BY <2>1, <2>2 DEF Finish
  <2>4. /\ p.valid_from <= clock /\ clock <= p.expires_at + MaxStaleness
    BY <1>1, <2>3, FinishedWhatItHeld
  <2>. HIDE DEF p
  <2>5. current'[s] = p
    BY <1>1, <2>3 DEF DeliveryInv
  <2>. QED
    BY <2>4, <2>5
<1>2. DeliveryInv /\ [Next]_vars =>
        [\A s \in Slots : current'[s] # current[s] =>
            /\ current'[s].valid_from <= clock
            /\ clock <= current'[s].expires_at + MaxStaleness]_vars
  BY <1>1
<1>. QED
  BY <1>2, DeliveryInvariance, PTL DEF Spec, AdoptedInsideItsWindow

-----------------------------------------------------------------------------
(* The register.                                                           *)

\* Every step announces, adopts or is invisible.
LEMMA StepsOfTheRegister ==
  ASSUME DeliveryInv, [Next]_vars
  PROVE  [Register!Next]_(Register!rvars)
<1>1. ASSUME NEW p \in Payload, Publish(p)
      PROVE  Register!Next
  BY <1>1 DEF Publish, Register!Next
<1>2. ASSUME NEW r \in Receivers, Finish(r)
      PROVE  Register!Next \/ UNCHANGED Register!rvars
  <2>. DEFINE p == held[r].payload
  <2>1. held[r] # Nothing /\ UNCHANGED published
    BY <1>2 DEF Finish
  <2>2. p \in published /\ p \in Payload
    BY <2>1, FinishedWhatItHeld
  <2>3. CASE Supersedes(p)
    <3>1. Register!Adopt(p)
      BY <1>2, <2>1, <2>2, <2>3 DEF Finish, Supersedes, Register!Adopt
    <3>. QED
      BY <2>2, <3>1 DEF Register!Next
  <2>4. CASE ~Supersedes(p)
    BY <1>2, <2>1, <2>4 DEF Finish, Register!rvars
  <2>. QED
    BY <2>3, <2>4
<1>3. ASSUME UNCHANGED <<published, current>>
      PROVE  UNCHANGED Register!rvars
  BY <1>3 DEF Register!rvars
<1>4. \/ \E p \in Payload : Publish(p)
      \/ \E r \in Receivers : Finish(r)
      \/ UNCHANGED <<published, current>>
  BY DEF Next, Receive, Crash, Tick, vars
<1>. QED
  BY <1>1, <1>2, <1>3, <1>4

\* The matcher follows the announcements: late, repeated and lost deliveries,
\* mixed envelopes and crashing receivers are invisible to RootRegister.
THEOREM DeliveryImplementsRegister == Spec => ImplementsRegister
<1>1. Init => Register!Init
  BY DEF Init
<1>2. DeliveryInv /\ [Next]_vars => [Register!Next]_(Register!rvars)
  BY StepsOfTheRegister
<1>. QED
  BY <1>1, <1>2, DeliveryInvariance, PTL DEF Spec, ImplementsRegister, Register!Spec

=============================================================================
