-------------------------- MODULE ControlPlaneProofs --------------------------
EXTENDS LabWorkspaces, SequenceTheorems, FiniteSetTheorems, TLAPS

-----------------------------------------------------------------------------
\* What an operation has still to do.

Creating == {"put", "insert", "drop"}
Settling == {"active", "retiring", "revoked"}
Certifying == {"request", "sign", "record", "failed"}

Places == Authorities \cup Workspaces \cup {Nobody}
Deeds == Creating \cup Settling \cup Certifying \cup Parts
         \cup {"clear", "list", "save", "unapprove", "read", "write", "trigger", "resolve",
               "target", "reserve", "reset", "end", "abandon", "expire"}
StepSet == [do : Deeds, at : Places]

Operations ==
    {"none", "boot", "failed", "createManaged", "importExternal", "active", "retiring", "revoked",
     "rotate", "refreshCrl", "uploadCrl", "issue", "registerExternal", "revokeCertificate",
     "create", "reset", "end", "lab", "sweep"}

JobRecords ==
    [op : Operations, todo : Seq(StepSet), about : Places, cert : Certificates \cup {Nobody},
     seen : SUBSET (Authorities \cup Certificates), bundle : Bundles,
     left : SUBSET {"ca", "crl"}, home : Places, clean : BOOLEAN]

\* q may come right after p: a row after its key, a signature after its request,
\* a certificate after its signature, a list after its entries were read.
Follows(p, q) ==
    /\ q.do \notin {"put", "drop", "request", "failed"}
    /\ q.do = "insert" => p.do = "put" /\ p.at = q.at
    /\ q.do = "sign" => p.do = "request"
    /\ q.do = "record" => p.do = "sign"
    /\ q.do = "save" => p.do = "list"

Orderly(s) == \A i \in 2 .. Len(s) : Follows(s[i-1], s[i])

\* A status is set of a row in R, or inserted by then.
HasRow(s, R) ==
    \A i \in 1 .. Len(s) :
       s[i].do \in Settling => s[i].at \in R \/ \E k \in 1 .. (i - 1) : s[k] = Step("insert", s[i].at)

OfAuthorities(s) ==
    \A i \in 1 .. Len(s) :
       s[i].do \in Creating \cup Settling \cup Certifying => s[i].at \in Authorities

\* What is to be revoked has been issued.
Unapproves(s) == \E i \in 1 .. Len(s) : s[i].do = "unapprove"

\* What may follow when the rows are those in R, and issued says whether the
\* certificate it is about has been issued.
Sound(s, R, issued) ==
    /\ s \in Seq(StepSet)
    /\ Orderly(s) /\ OfAuthorities(s) /\ HasRow(s, R)
    /\ Unapproves(s) => issued

Rows == {a \in Authorities : status[a] # "none"}
Issued(c) == c \in Certificates /\ certificate[c].status # "none"

\* What is under way has a name.
Named(r) == r.left # {} \/ r.todo # <<>> => r.op # "none"

Creates(j, a) == job[j].todo # <<>> /\ Head(job[j].todo).do \in Creating /\ At(j) = a
Certifies(j, c) == job[j].todo # <<>> /\ Head(job[j].todo).do \in Certifying /\ job[j].cert = c

CreatesNew(j) ==
    \A a \in Authorities : Creates(j, a) =>
       /\ status[a] = "none"
       /\ \A k \in Jobs \ {j} : ~Creates(k, a)
       /\ \A w \in Workspaces : CaOf[w] = a => workspace[w] # "none"
       /\ Pending(j, "put") => a \notin External
       /\ Pending(j, "insert") => a \in keys \cup External

CertifiesNew(j) ==
    \A c \in Certificates \cup {Nobody} : Certifies(j, c) =>
       /\ c \in Certificates
       /\ ~Issued(c)
       /\ \A k \in Jobs \ {j} : ~Certifies(k, c)
       /\ issuance[c] \in {"none", "open"}
       /\ Pending(j, "request") => issuance[c] = "none"
       /\ Pending(j, "sign") => issuance[c] = "open"

JobOK(j) ==
    /\ job[j] \in JobRecords
    /\ Named(job[j])
    /\ Sound(job[j].todo, Rows, Issued(job[j].cert))
    /\ CreatesNew(j) /\ CertifiesNew(j)
    /\ Pending(j, "save") => job[j].seen \subseteq Certificates

LabsOK ==
    /\ workspace \in [Workspaces -> {"none", "active", "expired", "revoked"}]
    /\ \A w \in Workspaces : workspace[w] = "none" => status[CaOf[w]] = "none"
    /\ \A c \in Certificates : Issued(c) => certificate[c].by \in Authorities

\* The inductive invariant of IssuersHaveKeys.
ControlInv ==
    /\ IssuersHaveKeys
    /\ LabsOK
    /\ job = [j \in Jobs |-> job[j]]
    /\ \A j \in Jobs : JobOK(j)

-----------------------------------------------------------------------------
\* An operation that nothing overlaps.

Publishing(j) ==
    LET r == job[j] IN
    \/ r.todo = Publication
    \/ /\ r.todo = Tail(Publication)
       /\ r.left # {} /\ r.bundle = buildTrustBundle
       /\ "ca" \in r.left \/ files.ca = r.bundle.ca
       /\ "crl" \in r.left \/ files.crl = r.bundle.crl
    \/ r.todo = Tail(Tail(Publication)) /\ r.left = {} /\ files = buildTrustBundle

StatusTakesEffect(j) ==
    LET r == job[j]  a == r.about IN
    /\ a \in Authorities
    /\ \/ r.todo = SetTo(a, r.op)
       \/ /\ r.op = "active" /\ r.todo = Tail(SetTo(a, r.op))
          /\ r.seen = IF a \in External THEN {} ELSE IssuersBeside(a, issuer)
       \/ /\ Publishing(j) /\ status[a] = r.op
          /\ r.op = "active" /\ a \notin External => IssuersBeside(a, issuer) = {a}

Replacing(j, a, b) ==
    LET r == job[j]  second == SetTo(a, "retiring") IN
    /\ b # a /\ HomeOf[b] = HomeOf[a]
    /\ \/ r.todo = Created(b) \o (SetTo(b, "active") \o second)
       \/ r.todo = <<Step("insert", b)>> \o (SetTo(b, "active") \o second)
       \/ r.todo = SetTo(b, "active") \o second
       \/ r.todo = Tail(SetTo(b, "active")) \o second /\ r.seen = IssuersBeside(b, issuer)
       \/ /\ status[b] = "active" /\ IssuersBeside(b, issuer) = {b}
          /\ \/ r.todo \in {Publication \o second, Tail(Publication) \o second,
                            Tail(Tail(Publication)) \o second, second}
             \/ status[a] = "retiring" /\ Publishing(j)

RotationTakesEffect(j) ==
    LET a == job[j].about IN
    /\ a \in Authorities \ External
    /\ \E b \in Authorities \ External : Replacing(j, a, b)

RevocationTakesEffect(j) ==
    LET r == job[j]  a == r.about  c == r.cert IN
    /\ c \in Certificates /\ certificate[c].status # "none" /\ certificate[c].by = a
    /\ \/ r.todo = <<Step("unapprove", a)>> \o Refreshed(a) /\ r.left = {}
       \/ r.todo = Refreshed(a) /\ r.left = {} /\ certificate[c].status = "revoked"
       \/ r.todo = Tail(Refreshed(a)) /\ r.left = {} /\ (a \notin External => c \in r.seen)
       \/ Publishing(j) /\ (a \notin External => c \in crl[a].revoked /\ crl[a].known)

TakesEffect(j) ==
    job[j].clean /\ job[j] # Free =>
       /\ \A k \in Jobs \ {j} : IsFree(k)
       /\ job[j].op \in Settling => StatusTakesEffect(j)
       /\ job[j].op = "boot" => Publishing(j)
       /\ job[j].op = "rotate" => RotationTakesEffect(j)
       /\ job[j].op = "revokeCertificate" => RevocationTakesEffect(j)

EffectInv == \A j \in Jobs : TakesEffect(j)

-----------------------------------------------------------------------------
\* Sequences of steps.

Front(x, s) == <<x>> \o s

LEMMA FrontIs ==
  ASSUME NEW x \in StepSet, NEW s \in Seq(StepSet)
  PROVE  /\ Front(x, s) \in Seq(StepSet) /\ Front(x, s) # <<>>
         /\ Len(Front(x, s)) = Len(s) + 1
         /\ Front(x, s)[1] = x
         /\ \A i \in 2 .. Len(s) + 1 : Front(x, s)[i] = s[i-1]
         /\ Head(Front(x, s)) = x /\ Tail(Front(x, s)) = s
<1>1. Len(s) \in Nat /\ <<x>> \in Seq(StepSet) /\ Len(<<x>>) = 1 /\ <<x>>[1] = x
  BY LenProperties
<1>2. /\ Front(x, s) \in Seq(StepSet) /\ Len(Front(x, s)) = Len(s) + 1
      /\ \A i \in 1 .. Len(s) + 1 : Front(x, s)[i] = IF i = 1 THEN x ELSE s[i-1]
  BY <1>1, ConcatProperties DEF Front
<1>3. Front(x, s) # <<>> BY <1>1, <1>2, EmptySeq
<1>4. Head(Front(x, s)) = x BY <1>1, <1>2, <1>3
<1>5. Tail(Front(x, s)) = s
  <2>1. /\ Tail(Front(x, s)) \in Seq(StepSet)
        /\ Len(Tail(Front(x, s))) = Len(Front(x, s)) - 1
        /\ \A i \in 1 .. Len(Tail(Front(x, s))) : Tail(Front(x, s))[i] = Front(x, s)[i+1]
    BY <1>2, <1>3, HeadTailProperties
  <2>2. \A i \in 1 .. Len(s) : Tail(Front(x, s))[i] = s[i] BY <1>1, <1>2, <2>1
  <2> QED BY <1>1, <1>2, <2>1, <2>2, SeqEqual
<1> QED BY <1>1, <1>2, <1>3, <1>4, <1>5

LEMMA TailIs ==
  ASSUME NEW s \in Seq(StepSet), s # <<>>
  PROVE  /\ Len(s) \in Nat /\ Len(s) >= 1
         /\ Head(s) = s[1] /\ s[1] \in StepSet
         /\ Tail(s) \in Seq(StepSet) /\ Len(Tail(s)) = Len(s) - 1
         /\ \A i \in 1 .. Len(s) - 1 : Tail(s)[i] = s[i+1]
BY EmptySeq, HeadTailProperties, ElementOfSeq

LEMMA StepIs ==
  ASSUME NEW do \in Deeds, NEW at \in Places
  PROVE  Step(do, at) \in StepSet /\ Step(do, at).do = do /\ Step(do, at).at = at
BY DEF Step, StepSet

\* What follows the first step is sound, the row inserted by it being there.
Inserts(x) == IF x.do = "insert" THEN {x.at} ELSE {}

LEMMA SoundTail ==
  ASSUME NEW s, NEW R, NEW issued \in BOOLEAN, Sound(s, R, issued), s # <<>>
  PROVE  /\ Sound(Tail(s), R \cup Inserts(Head(s)), issued)
         /\ Head(s) \in StepSet
         /\ Head(s).do \in Creating \cup Settling \cup Certifying => Head(s).at \in Authorities
         /\ Head(s).do \in Settling => Head(s).at \in R
         /\ Head(s).do = "unapprove" => issued
         /\ Tail(s) # <<>> => Follows(Head(s), Head(Tail(s)))
<1> s \in Seq(StepSet) BY DEF Sound
<1>1. /\ Len(s) \in Nat /\ Len(s) >= 1
      /\ Head(s) = s[1] /\ s[1] \in StepSet
      /\ Tail(s) \in Seq(StepSet) /\ Len(Tail(s)) = Len(s) - 1
      /\ \A i \in 1 .. Len(s) - 1 : Tail(s)[i] = s[i+1]
  BY TailIs
<1>2. Orderly(Tail(s))
  <2> SUFFICES ASSUME NEW i \in 2 .. Len(Tail(s)) PROVE Follows(Tail(s)[i-1], Tail(s)[i])
    BY DEF Orderly
  <2>1. i + 1 \in 2 .. Len(s) /\ Tail(s)[i] = s[i+1] /\ Tail(s)[i-1] = s[i]
    BY <1>1
  <2>2. Follows(s[(i+1)-1], s[i+1]) BY <2>1 DEF Sound, Orderly
  <2>3. (i+1)-1 = i BY <1>1
  <2> QED BY <2>1, <2>2, <2>3
<1>3. OfAuthorities(Tail(s)) /\ (Unapproves(Tail(s)) => issued)
  <2>1. \A i \in 1 .. Len(Tail(s)) : i + 1 \in 1 .. Len(s) /\ Tail(s)[i] = s[i+1] BY <1>1
  <2> QED BY <2>1 DEF Sound, OfAuthorities, Unapproves
<1>4. HasRow(Tail(s), R \cup Inserts(Head(s)))
  <2> SUFFICES ASSUME NEW i \in 1 .. Len(Tail(s)), Tail(s)[i].do \in Settling,
                      Tail(s)[i].at \notin R \cup Inserts(Head(s))
               PROVE  \E k \in 1 .. (i - 1) : Tail(s)[k] = Step("insert", Tail(s)[i].at)
    BY DEF HasRow
  <2>1. i + 1 \in 1 .. Len(s) /\ Tail(s)[i] = s[i+1] BY <1>1
  <2>2. PICK k \in 1 .. i : s[k] = Step("insert", s[i+1].at)
    <3>1. s[i+1].at \notin R BY <2>1
    <3>2. \E k \in 1 .. ((i+1) - 1) : s[k] = Step("insert", s[i+1].at)
      BY <2>1, <3>1 DEF Sound, HasRow
    <3> QED BY <1>1, <3>2
  <2>3. k # 1
    BY <1>1, <2>1, <2>2 DEF Inserts, Step
  <2>4. k - 1 \in 1 .. (i - 1) /\ Tail(s)[k - 1] = s[k]
    <3>1. k - 1 \in 1 .. Len(s) - 1 /\ k - 1 \in 1 .. (i - 1) BY <1>1, <2>3
    <3>2. Tail(s)[k-1] = s[(k-1)+1] BY <1>1, <3>1
    <3>3. (k-1)+1 = k BY <1>1
    <3> QED BY <3>1, <3>2, <3>3
  <2> QED BY <2>1, <2>2, <2>4
<1>5. Tail(s) # <<>> => Follows(Head(s), Head(Tail(s)))
  <2> HAVE Tail(s) # <<>>
  <2>1. Len(Tail(s)) >= 1 /\ Head(Tail(s)) = Tail(s)[1] BY <1>1, TailIs
  <2>2. 2 \in 2 .. Len(s) /\ Tail(s)[1] = s[2] BY <1>1, <2>1
  <2>3. Follows(s[2-1], s[2]) BY <2>2 DEF Sound, Orderly
  <2>4. 2 - 1 = 1 OBVIOUS
  <2> QED BY <1>1, <2>1, <2>2, <2>3, <2>4
<1>6. 1 \in 1 .. Len(s) BY <1>1
<1>7. Head(s).do \in Settling => Head(s).at \in R
  BY <1>1, <1>6 DEF Sound, HasRow
<1>8. Head(s).do \in Creating \cup Settling \cup Certifying => Head(s).at \in Authorities
  BY <1>1, <1>6 DEF Sound, OfAuthorities
<1>9. Head(s).do = "unapprove" => issued BY <1>1, <1>6 DEF Sound, Unapproves
<1> QED BY <1>1, <1>2, <1>3, <1>4, <1>5, <1>7, <1>8, <1>9 DEF Sound

LEMMA SoundFront ==
  ASSUME NEW x \in StepSet, NEW s, NEW R, NEW issued \in BOOLEAN,
         Sound(s, R \cup Inserts(x), issued),
         s # <<>> => Follows(x, Head(s)),
         x.do \in Creating \cup Settling \cup Certifying => x.at \in Authorities,
         x.do \in Settling => x.at \in R,
         x.do = "unapprove" => issued
  PROVE  Sound(Front(x, s), R, issued) /\ Front(x, s) # <<>> /\ Head(Front(x, s)) = x
<1> DEFINE t == Front(x, s)
<1> s \in Seq(StepSet) BY DEF Sound
<1>1. /\ t \in Seq(StepSet) /\ t # <<>> /\ Len(t) = Len(s) + 1 /\ Len(s) \in Nat
      /\ t[1] = x /\ Head(t) = x
      /\ \A i \in 2 .. Len(s) + 1 : t[i] = s[i-1]
  BY FrontIs, LenProperties
<1> HIDE DEF t
<1>2. Orderly(t)
  <2> SUFFICES ASSUME NEW i \in 2 .. Len(t) PROVE Follows(t[i-1], t[i]) BY DEF Orderly
  <2>1. t[i] = s[i-1] BY <1>1
  <2>2. CASE i = 2
    <3>1. i - 1 = 1 /\ s # <<>> /\ t[i-1] = x BY <1>1, <2>2, EmptySeq
    <3>2. Head(s) = s[1] BY <3>1, TailIs
    <3> QED BY <2>1, <3>1, <3>2
  <2>3. CASE i # 2
    <3>1. i - 1 \in 2 .. Len(s) /\ i - 1 \in 2 .. Len(s) + 1 BY <1>1, <2>3
    <3>2. t[i-1] = s[(i-1)-1] BY <1>1, <3>1
    <3> QED BY <2>1, <3>1, <3>2 DEF Sound, Orderly
  <2> QED BY <2>2, <2>3
<1>3. OfAuthorities(t) /\ (Unapproves(t) => issued)
  <2>1. \A i \in 1 .. Len(t) : t[i] = x \/ (i - 1 \in 1 .. Len(s) /\ t[i] = s[i-1]) BY <1>1
  <2> QED BY <2>1 DEF Sound, OfAuthorities, Unapproves
<1>4. HasRow(t, R)
  <2> SUFFICES ASSUME NEW i \in 1 .. Len(t), t[i].do \in Settling, t[i].at \notin R
               PROVE  \E k \in 1 .. (i - 1) : t[k] = Step("insert", t[i].at)
    BY DEF HasRow
  <2>1. i # 1 BY <1>1
  <2>2. i - 1 \in 1 .. Len(s) /\ t[i] = s[i-1] BY <1>1, <2>1
  <2>3. CASE s[i-1].at \in Inserts(x)
    <3>1. x.do = "insert" /\ x.at = t[i].at BY <2>2, <2>3 DEF Inserts
    <3>2. x = Step("insert", t[i].at) BY <3>1 DEF StepSet, Step
    <3> QED BY <1>1, <2>1, <3>2
  <2>4. CASE s[i-1].at \notin Inserts(x)
    <3>1. PICK k \in 1 .. ((i - 1) - 1) : s[k] = Step("insert", s[i-1].at)
      BY <2>2, <2>4 DEF Sound, HasRow
    <3>2. k + 1 \in 2 .. Len(s) + 1 /\ k + 1 \in 1 .. (i - 1) /\ (k + 1) - 1 = k BY <1>1
    <3>3. t[k+1] = s[k] BY <1>1, <3>2
    <3> QED BY <2>2, <3>1, <3>2, <3>3
  <2> QED BY <2>3, <2>4
<1> QED BY <1>1, <1>2, <1>3, <1>4 DEF Sound, t

LEMMA SoundGrows ==
  ASSUME NEW s, NEW R, NEW Q, NEW g, NEW h, Sound(s, R, g), R \subseteq Q, g => h
  PROVE  Sound(s, Q, h)
<1>1. HasRow(s, Q) BY DEF Sound, HasRow
<1> QED BY <1>1 DEF Sound

\* Steps that ask for nothing.
Plain(s) ==
    /\ s \in Seq(StepSet)
    /\ \A i \in 1 .. Len(s) : s[i].do \notin Creating \cup Settling \cup Certifying \cup {"save", "unapprove"}

LEMMA PlainIsSound ==
  ASSUME NEW s, NEW R, NEW issued, Plain(s)
  PROVE  /\ Sound(s, R, issued)
         /\ s # <<>> => /\ \A x : Follows(x, Head(s))
                        /\ Head(s).do \notin Creating \cup Certifying \cup {"save"}
<1>1. s \in Seq(StepSet) /\ Len(s) \in Nat BY LenProperties DEF Plain
<1>2. \A i \in 2 .. Len(s) : i \in 1 .. Len(s) BY <1>1
<1>3. Orderly(s) BY <1>2 DEF Plain, Orderly, Follows, Creating, Certifying
<1>4. OfAuthorities(s) /\ HasRow(s, R) /\ ~Unapproves(s)
  BY DEF Plain, OfAuthorities, HasRow, Unapproves
<1>5. s # <<>> => 1 \in 1 .. Len(s) /\ Head(s) = s[1] BY <1>1, TailIs
<1> QED BY <1>1, <1>3, <1>4, <1>5 DEF Sound, Plain, Follows, Creating, Certifying

LEMMA PlainFront ==
  ASSUME NEW x \in StepSet, NEW s, Plain(s),
         x.do \notin Creating \cup Settling \cup Certifying \cup {"save", "unapprove"}
  PROVE  Plain(Front(x, s))
<1>1. s \in Seq(StepSet) /\ Len(s) \in Nat BY LenProperties DEF Plain
<1>2. /\ Front(x, s) \in Seq(StepSet) /\ Len(Front(x, s)) = Len(s) + 1
      /\ Front(x, s)[1] = x /\ \A i \in 2 .. Len(s) + 1 : Front(x, s)[i] = s[i-1]
  BY <1>1, FrontIs
<1>3. \A i \in 1 .. Len(s) + 1 :
        \/ Front(x, s)[i] = x
        \/ (i - 1 \in 1 .. Len(s) /\ Front(x, s)[i] = s[i-1])
  <2> TAKE i \in 1 .. Len(s) + 1
  <2>1. CASE i = 1 BY <1>2, <2>1
  <2>2. CASE i # 1
    <3>1. i \in 2 .. Len(s) + 1 /\ i - 1 \in 1 .. Len(s) BY <1>1, <2>2
    <3> QED BY <1>2, <3>1
  <2> QED BY <2>1, <2>2
<1> QED BY <1>2, <1>3 DEF Plain

LEMMA PlainAppend ==
  ASSUME NEW s, NEW t, Plain(s), Plain(t)
  PROVE  Plain(s \o t)
<1>1. s \in Seq(StepSet) /\ t \in Seq(StepSet) /\ Len(s) \in Nat /\ Len(t) \in Nat
  BY LenProperties DEF Plain
<1>2. /\ s \o t \in Seq(StepSet) /\ Len(s \o t) = Len(s) + Len(t)
      /\ \A i \in 1 .. Len(s) + Len(t) : (s \o t)[i] = IF i <= Len(s) THEN s[i] ELSE t[i - Len(s)]
  BY <1>1, ConcatProperties
<1>3. \A i \in 1 .. Len(s) + Len(t) :
        \/ i \in 1 .. Len(s) /\ (s \o t)[i] = s[i]
        \/ i - Len(s) \in 1 .. Len(t) /\ (s \o t)[i] = t[i - Len(s)]
  <2> TAKE i \in 1 .. Len(s) + Len(t)
  <2>1. CASE i <= Len(s)
    <3>1. i \in 1 .. Len(s) BY <1>1, <2>1
    <3>2. (s \o t)[i] = s[i] BY <1>2, <2>1
    <3> QED BY <3>1, <3>2
  <2>2. CASE ~(i <= Len(s))
    <3>1. i - Len(s) \in 1 .. Len(t) BY <1>1, <2>2
    <3>2. (s \o t)[i] = t[i - Len(s)] BY <1>2, <2>2
    <3> QED BY <3>1, <3>2
  <2> QED BY <2>1, <2>2
<1> QED BY <1>2, <1>3 DEF Plain

\* The sequences written out are built from the front.
LEMMA Single ==
  ASSUME NEW x \in StepSet, NEW s \in Seq(StepSet)
  PROVE  <<x>> = Front(x, <<>>) /\ <<x>> \o s = Front(x, s)
<1>1. <<>> \in Seq(StepSet) /\ <<x>> \in Seq(StepSet) OBVIOUS
<1> QED BY <1>1, ConcatEmptySeq DEF Front

LEMMA Pair ==
  ASSUME NEW x \in StepSet, NEW y \in StepSet, NEW s \in Seq(StepSet)
  PROVE  /\ <<x, y>> = Front(x, <<y>>) /\ <<x, y>> = Front(x, Front(y, <<>>))
         /\ <<x, y>> \o s = Front(x, Front(y, s))
<1>1. <<x>> \in Seq(StepSet) /\ <<y>> \in Seq(StepSet) /\ <<x, y>> \in Seq(StepSet) OBVIOUS
<1>2. <<x, y>> = <<x>> \o <<y>>
  <2>1. /\ <<x>> \o <<y>> \in Seq(StepSet) /\ Len(<<x>> \o <<y>>) = 2
        /\ (<<x>> \o <<y>>)[1] = x /\ (<<x>> \o <<y>>)[2] = y
    BY <1>1, ConcatProperties
  <2>2. Len(<<x, y>>) = 2 /\ <<x, y>>[1] = x /\ <<x, y>>[2] = y OBVIOUS
  <2>3. \A i \in 1 .. 2 : i = 1 \/ i = 2 OBVIOUS
  <2> QED BY <1>1, <2>1, <2>2, <2>3, SeqEqual
<1>3. (<<x>> \o <<y>>) \o s = <<x>> \o (<<y>> \o s) BY <1>1, ConcatAssociative
<1>4. <<y>> = Front(y, <<>>) BY EmptySeq, Single
<1> QED BY <1>2, <1>3, <1>4 DEF Front

LEMMA Triple ==
  ASSUME NEW x \in StepSet, NEW y \in StepSet, NEW z \in StepSet
  PROVE  /\ <<x, y, z>> = Front(x, <<y, z>>)
         /\ <<x, y, z>> = Front(x, Front(y, Front(z, <<>>)))
<1>1. <<x>> \in Seq(StepSet) /\ <<y, z>> \in Seq(StepSet) /\ <<x, y, z>> \in Seq(StepSet) OBVIOUS
<1>2. <<x, y, z>> = <<x>> \o <<y, z>>
  <2>1. /\ <<x>> \o <<y, z>> \in Seq(StepSet) /\ Len(<<x>> \o <<y, z>>) = 3
        /\ (<<x>> \o <<y, z>>)[1] = x /\ (<<x>> \o <<y, z>>)[2] = y /\ (<<x>> \o <<y, z>>)[3] = z
    BY <1>1, ConcatProperties
  <2>2. Len(<<x, y, z>>) = 3 /\ <<x, y, z>>[1] = x /\ <<x, y, z>>[2] = y /\ <<x, y, z>>[3] = z OBVIOUS
  <2>3. \A i \in 1 .. 3 : i = 1 \/ i = 2 \/ i = 3 OBVIOUS
  <2> QED BY <1>1, <2>1, <2>2, <2>3, SeqEqual
<1>3. <<y, z>> = Front(y, Front(z, <<>>)) BY EmptySeq, Pair
<1> QED BY <1>2, <1>3 DEF Front

LEMMA NobodyIs == Nobody \in Places /\ Authorities \subseteq Places /\ Workspaces \subseteq Places
BY DEF Places

LEMMA StepOfNobody ==
  ASSUME NEW do \in Deeds
  PROVE  Step(do, Nobody) \in StepSet /\ Step(do, Nobody).do = do
BY NobodyIs, StepIs

LEMMA PlainStep ==
  ASSUME NEW x \in StepSet,
         x.do \notin Creating \cup Settling \cup Certifying \cup {"save", "unapprove"}
  PROVE  Plain(<<x>>)
<1>1. Plain(<<>>) BY EmptySeq DEF Plain
<1>2. <<x>> = Front(x, <<>>) BY EmptySeq, Single
<1> QED BY <1>1, <1>2, PlainFront

LEMMA PlainPair ==
  ASSUME NEW x \in StepSet, NEW y \in StepSet,
         x.do \notin Creating \cup Settling \cup Certifying \cup {"save", "unapprove"},
         y.do \notin Creating \cup Settling \cup Certifying \cup {"save", "unapprove"}
  PROVE  Plain(<<x, y>>)
<1>1. Plain(<<y>>) /\ <<y>> = Front(y, <<>>) BY EmptySeq, Single, PlainStep
<1>2. <<x, y>> = Front(x, <<y>>) BY EmptySeq, Pair
<1> QED BY <1>1, <1>2, PlainFront

\* The sequences that undo, publish and set up a sample.
LEMMA PlainSequences ==
  /\ Plain(<<>>) /\ Plain(Publication) /\ Plain(Compensation) /\ Plain(Sample)
  /\ Publication = Front(Step("read", Nobody), Front(Step("write", Nobody), Front(Step("trigger", Nobody), <<>>)))
  /\ Publication # <<>> /\ Compensation # <<>> /\ Sample # <<>>
  /\ \A do \in {"reserve", "reset", "resolve"} : Plain(<<Step(do, Nobody)>>)
  /\ Plain(<<Step("end", Nobody)>> \o Publication)
<1> DEFINE Quiet == Deeds \ (Creating \cup Settling \cup Certifying \cup {"save", "unapprove"})
<1>1. \A do \in Quiet : /\ Step(do, Nobody) \in StepSet
                        /\ Step(do, Nobody).do \notin Creating \cup Settling \cup Certifying \cup {"save", "unapprove"}
  BY StepOfNobody
<1>2. /\ {"read", "write", "trigger", "reserve", "reset", "resolve", "end", "abandon", "target"} \subseteq Quiet
      /\ Parts \subseteq Quiet
  BY DEF Deeds, Creating, Settling, Certifying, Parts
<1> HIDE DEF Quiet
<1>3. Plain(<<>>) BY EmptySeq DEF Plain
<1>4. \A do \in Quiet : Plain(<<Step(do, Nobody)>>) /\ <<Step(do, Nobody)>> # <<>>
  BY <1>1, PlainStep
<1>5. \A do, next \in Quiet : Plain(<<Step(do, Nobody), Step(next, Nobody)>>)
  BY <1>1, PlainPair
<1>6. Publication = Front(Step("read", Nobody), Front(Step("write", Nobody), Front(Step("trigger", Nobody), <<>>)))
  <2>1. /\ Step("read", Nobody) \in StepSet /\ Step("write", Nobody) \in StepSet
        /\ Step("trigger", Nobody) \in StepSet
    BY <1>1, <1>2
  <2> QED BY <2>1, Triple DEF Publication
<1>7. Plain(Publication) /\ Publication # <<>>
  BY <1>1, <1>2, <1>3, <1>6, PlainFront DEF Publication
<1>8. Plain(Compensation) /\ Plain(<<Step("end", Nobody)>> \o Publication)
  BY <1>2, <1>4, <1>7, PlainAppend DEF Compensation
<1>9. Compensation # <<>>
  BY <1>1, <1>2, <1>7, FrontIs DEF Compensation, Front, Plain
<1>10. \A part \in Parts : Plain(PartSteps(part)) /\ PartSteps(part) # <<>>
  BY <1>2, <1>5 DEF PartSteps
<1>11. Plain(<<Step("resolve", Nobody), Step("target", Nobody), Step("deployment", Nobody)>>)
  <2>1. Plain(<<Step("target", Nobody), Step("deployment", Nobody)>>) BY <1>2, <1>5 DEF Parts
  <2>2. <<Step("resolve", Nobody), Step("target", Nobody), Step("deployment", Nobody)>>
           = Front(Step("resolve", Nobody), <<Step("target", Nobody), Step("deployment", Nobody)>>)
    BY <1>1, <1>2, Triple DEF Parts
  <2> QED BY <1>1, <1>2, <2>1, <2>2, PlainFront
<1>12. Plain(Sample) /\ Sample # <<>>
  <2> DEFINE a == PartSteps("upstream") \o PartSteps("proxy")
             b == a \o <<Step("resolve", Nobody), Step("target", Nobody), Step("deployment", Nobody)>>
             c == b \o PartSteps("product")
             e == PartSteps("application")
  <2>1. Plain(a) BY <1>10, PlainAppend DEF Parts
  <2>2. Plain(b) BY <1>11, <2>1, PlainAppend
  <2>3. Plain(c) BY <1>10, <2>2, PlainAppend DEF Parts
  <2>4. Plain(e) /\ e # <<>> BY <1>10 DEF Parts
  <2> HIDE DEF a, b, c, e
  <2>5. Plain(c \o e) BY <2>3, <2>4, PlainAppend
  <2>6. c \o e # <<>> BY <2>3, <2>4, ConcatSimplifications DEF Plain
  <2>7. Sample = c \o e BY DEF Sample, a, b, c, e
  <2> QED BY <2>5, <2>6, <2>7
<1>13. \A do \in {"reserve", "reset", "resolve"} : Plain(<<Step(do, Nobody)>>) BY <1>2, <1>4
<1> QED BY <1>3, <1>6, <1>7, <1>8, <1>9, <1>12, <1>13

-----------------------------------------------------------------------------
\* What a step of job j may leave as it is of another job.
Untouched(k) ==
    /\ job'[k] \in JobRecords /\ Named(job'[k])
    /\ job'[k].todo = job[k].todo
    /\ job[k].todo # <<>> => job'[k].cert = job[k].cert /\ job'[k].seen = job[k].seen

\* Nothing is created or certified by a job but what it was about before, or
\* what no other is about.
LEMMA CreatesKept ==
  ASSUME ControlInv, NEW j \in Jobs, \A k \in Jobs \ {j} : Untouched(k),
         Rows \subseteq Rows',
         \A w \in Workspaces : workspace[w] # "none" => workspace'[w] # "none",
         \A a \in Authorities :
            /\ a \in Rows' \ Rows => Creates(j, a) /\ ~Creates(j, a)'
            /\ a \in keys \ keys' => Creates(j, a)
            /\ Creates(j, a)' =>
                  /\ Creates(j, a) \/ \A k \in Jobs \ {j} : ~Creates(k, a)
                  /\ status'[a] = "none"
                  /\ \A w \in Workspaces : CaOf[w] = a => workspace'[w] # "none"
                  /\ Pending(j, "put")' => a \notin External
                  /\ Pending(j, "insert")' => a \in keys' \cup External
  PROVE  \A k \in Jobs : CreatesNew(k)'
<1>1. \A k \in Jobs \ {j}, a \in Authorities : Creates(k, a)' <=> Creates(k, a)
  BY DEF Untouched, Creates, At
<1>2. \A k \in Jobs \ {j} : /\ Pending(k, "put")' <=> Pending(k, "put")
                            /\ Pending(k, "insert")' <=> Pending(k, "insert")
  BY DEF Untouched, Pending
<1>3. CreatesNew(j)' BY <1>1 DEF CreatesNew, ControlInv, JobOK
<1>4. ASSUME NEW k \in Jobs \ {j} PROVE CreatesNew(k)'
  <2> SUFFICES ASSUME NEW a \in Authorities, Creates(k, a)
               PROVE  /\ status'[a] = "none"
                      /\ \A i \in Jobs \ {k} : ~Creates(i, a)'
                      /\ \A w \in Workspaces : CaOf[w] = a => workspace'[w] # "none"
                      /\ Pending(k, "put") => a \notin External
                      /\ Pending(k, "insert") => a \in keys' \cup External
    BY <1>1, <1>2 DEF CreatesNew
  <2>1. CreatesNew(k) /\ Creates(k, a) /\ ~Creates(j, a)
    BY DEF ControlInv, JobOK, CreatesNew
  <2>2. ~Creates(j, a)' BY <2>1
  <2>3. a \notin Rows' /\ (a \in keys => a \in keys') BY <2>1 DEF CreatesNew, Rows
  <2>4. \A i \in Jobs \ {k} : ~Creates(i, a)' BY <1>1, <2>1, <2>2 DEF CreatesNew
  <2> QED BY <2>1, <2>3, <2>4 DEF CreatesNew, Rows
<1> QED BY <1>3, <1>4

LEMMA CertifiesKept ==
  ASSUME ControlInv, NEW j \in Jobs, \A k \in Jobs \ {j} : Untouched(k),
         \A c \in Certificates :
            /\ Issued(c) => Issued(c)'
            /\ Issued(c)' => Issued(c) \/ (Certifies(j, c) /\ ~Certifies(j, c)')
            /\ issuance'[c] # issuance[c] => Certifies(j, c),
         \A c \in Certificates \cup {Nobody} : Certifies(j, c)' =>
            /\ Certifies(j, c) \/ \A k \in Jobs \ {j} : ~Certifies(k, c)
            /\ c \in Certificates /\ ~Issued(c)' /\ issuance'[c] \in {"none", "open"}
            /\ Pending(j, "request")' => issuance'[c] = "none"
            /\ Pending(j, "sign")' => issuance'[c] = "open"
  PROVE  \A k \in Jobs : CertifiesNew(k)'
<1>1. \A k \in Jobs \ {j}, c \in Certificates \cup {Nobody} : Certifies(k, c)' <=> Certifies(k, c)
  BY DEF Untouched, Certifies
<1>2. \A k \in Jobs \ {j} : /\ Pending(k, "request")' <=> Pending(k, "request")
                            /\ Pending(k, "sign")' <=> Pending(k, "sign")
  BY DEF Untouched, Pending
<1>3. CertifiesNew(j)' BY <1>1 DEF CertifiesNew, ControlInv, JobOK
<1>4. ASSUME NEW k \in Jobs \ {j} PROVE CertifiesNew(k)'
  <2> SUFFICES ASSUME NEW c \in Certificates \cup {Nobody}, Certifies(k, c)
               PROVE  /\ c \in Certificates
                      /\ ~Issued(c)'
                      /\ \A i \in Jobs \ {k} : ~Certifies(i, c)'
                      /\ issuance'[c] \in {"none", "open"}
                      /\ Pending(k, "request") => issuance'[c] = "none"
                      /\ Pending(k, "sign") => issuance'[c] = "open"
    BY <1>1, <1>2 DEF CertifiesNew
  <2>1. CertifiesNew(k) /\ c \in Certificates /\ ~Certifies(j, c) /\ ~Issued(c)
    BY DEF ControlInv, JobOK, CertifiesNew
  <2>2. ~Issued(c)' /\ issuance'[c] = issuance[c] BY <2>1
  <2>3. ~Certifies(j, c)' BY <2>1
  <2>4. \A i \in Jobs \ {k} : ~Certifies(i, c)' BY <1>1, <2>1, <2>3 DEF CertifiesNew
  <2> QED BY <2>1, <2>2, <2>4 DEF CertifiesNew
<1> QED BY <1>3, <1>4

\* Jobs but j stay as sound as they were.
LEMMA OthersKept ==
  ASSUME ControlInv, NEW j \in Jobs, \A k \in Jobs \ {j} : Untouched(k),
         Rows \subseteq Rows', \A c \in Certificates : Issued(c) => Issued(c)',
         \A k \in Jobs : CreatesNew(k)' /\ CertifiesNew(k)'
  PROVE  \A k \in Jobs \ {j} : JobOK(k)'
<1> SUFFICES ASSUME NEW k \in Jobs \ {j} PROVE JobOK(k)' OBVIOUS
<1>1. JobOK(k) /\ Untouched(k) BY DEF ControlInv
<1>2. Sound(job[k].todo, Rows, Issued(job[k].cert)) BY <1>1 DEF JobOK
<1>3. Sound(job'[k].todo, Rows', Issued(job[k].cert)')
  <2>1. CASE job[k].todo = <<>>
    <3>1. Plain(<<>>) BY PlainSequences
    <3> QED BY <1>1, <2>1, <3>1, PlainIsSound DEF Untouched
  <2>2. CASE job[k].todo # <<>>
    <3>1. job'[k].cert = job[k].cert /\ job'[k].todo = job[k].todo BY <1>1, <2>2 DEF Untouched
    <3>2. Issued(job[k].cert) => Issued(job[k].cert)' BY <3>1 DEF Issued
    <3>3. Sound(job[k].todo, Rows', Issued(job[k].cert)') BY <1>2, <3>2, SoundGrows
    <3> QED BY <3>1, <3>3
  <2> QED BY <2>1, <2>2
<1>4. (Pending(k, "save") => job[k].seen \subseteq Certificates)' BY <1>1 DEF JobOK, Untouched, Pending
<1> QED BY <1>1, <1>3, <1>4 DEF JobOK, Untouched

LEMMA FreeIs == Free \in JobRecords /\ Free.todo = <<>> /\ Free.left = {} /\ Plain(<<>>)
<1>1. Empty \in Bundles BY DEF Empty, Bundles
<1>2. <<>> \in Seq(StepSet) /\ "none" \in Operations BY EmptySeq DEF Operations
<1>6. Nobody \in Places BY NobodyIs
<1>3. Plain(<<>>) BY PlainSequences
<1>4. Free \in JobRecords BY <1>1, <1>2, <1>6 DEF Free, JobRecords
<1>5. Free.todo = <<>> /\ Free.left = {} BY DEF Free
<1> QED BY <1>3, <1>4, <1>5

LEMMA SettledIs ==
  ASSUME NEW r \in JobRecords, Named(r)
  PROVE  /\ Settled(r) \in JobRecords
         /\ Named(Settled(r))
         /\ Settled(r).todo = r.todo
         /\ r.todo # <<>> => Settled(r) = r
BY FreeIs DEF Settled, Named

LEMMA AdvancedIs ==
  ASSUME NEW r \in JobRecords, Named(r), r.todo # <<>>
  PROVE  /\ Advanced(r) \in JobRecords
         /\ Named(Advanced(r))
         /\ Advanced(r).todo = Tail(r.todo)
         /\ Tail(r.todo) # <<>> => Advanced(r).cert = r.cert /\ Advanced(r).seen = r.seen
<1> DEFINE t == [r EXCEPT !.todo = Tail(@)]
<1>1. r.todo \in Seq(StepSet) BY DEF JobRecords
<1>2. Tail(r.todo) \in Seq(StepSet) BY <1>1, TailIs
<1>3. /\ t \in JobRecords /\ t.left = r.left /\ t.op = r.op /\ t.todo = Tail(r.todo)
      /\ t.cert = r.cert /\ t.seen = r.seen
  BY <1>2 DEF JobRecords
<1> HIDE DEF t
<1>4. Advanced(r) = Settled(t) BY DEF Advanced, t
<1>5. Named(t) BY <1>3 DEF Named
<1> QED BY <1>3, <1>4, <1>5, SettledIs

\* What a step of job j has to show for the jobs to stay as they should.
LEMMA JobsKept ==
  ASSUME ControlInv, NEW j \in Jobs, \A k \in Jobs \ {j} : Untouched(k),
         job'[j] \in JobRecords, Named(job'[j]),
         Sound(job'[j].todo, Rows', Issued(job[j].cert)'),
         Pending(j, "save")' => job'[j].seen \subseteq Certificates,
         Rows \subseteq Rows',
         \A c \in Certificates : Issued(c) => Issued(c)',
         \A k \in Jobs : CreatesNew(k)', \A k \in Jobs : CertifiesNew(k)'
  PROVE  \A k \in Jobs : JobOK(k)'
<1>1. \A k \in Jobs \ {j} : JobOK(k)' BY OthersKept
<1>2. JobOK(j)' BY DEF JobOK
<1> QED BY <1>1, <1>2

\* A step that neither creates nor certifies.
LEMMA QuietKept ==
  ASSUME ControlInv, NEW j \in Jobs, \A k \in Jobs \ {j} : Untouched(k),
         job'[j] \in JobRecords, Named(job'[j]),
         Sound(job'[j].todo, Rows, Issued(job[j].cert)'),
         job'[j].todo # <<>> => Head(job'[j].todo).do \notin Creating \cup Certifying,
         Pending(j, "save")' => job'[j].seen \subseteq Certificates,
         Rows' = Rows,
         \A c \in Certificates : Issued(c)' = Issued(c),
         \A w \in Workspaces : workspace[w] # "none" => workspace'[w] # "none",
         keys' = keys, issuance' = issuance
  PROVE  \A k \in Jobs : JobOK(k)'
<1>1. \A a : ~Creates(j, a)' BY DEF Creates
<1>2. \A c : ~Certifies(j, c)' BY DEF Certifies
<1>3. \A k \in Jobs : CreatesNew(k)' BY <1>1, CreatesKept
<1>4. \A k \in Jobs : CertifiesNew(k)' BY <1>2, CertifiesKept
<1>5. Rows \subseteq Rows' /\ \A c \in Certificates : Issued(c) => Issued(c)' OBVIOUS
<1> QED BY <1>3, <1>4, <1>5, JobsKept

\* What follows a step that neither creates nor certifies is of that kind.
LEMMA NextStepIs ==
  ASSUME ControlInv, NEW j \in Jobs, job[j].todo # <<>>
  PROVE  LET s == job[j].todo IN
         /\ job[j] \in JobRecords /\ Named(job[j])
         /\ Head(s) \in StepSet
         /\ Sound(Tail(s), Rows \cup Inserts(Head(s)), Issued(job[j].cert))
         /\ Head(s).do \in Creating \cup Settling \cup Certifying => Head(s).at \in Authorities
         /\ Head(s).do \in Settling => Head(s).at \in Rows
         /\ Head(s).do = "unapprove" => Issued(job[j].cert)
         /\ Tail(s) # <<>> => Follows(Head(s), Head(Tail(s)))
         /\ Head(s).do \notin Creating => Inserts(Head(s)) = {}
<1>1. JobOK(j) BY DEF ControlInv
<1>2. Issued(job[j].cert) \in BOOLEAN BY DEF Issued
<1>3. Sound(job[j].todo, Rows, Issued(job[j].cert)) BY <1>1 DEF JobOK
<1>4. Head(job[j].todo).do \notin Creating => Inserts(Head(job[j].todo)) = {} BY DEF Inserts, Creating
<1> QED BY <1>1, <1>2, <1>3, <1>4, SoundTail DEF JobOK

LEMMA OnlyMoves ==
  ASSUME ControlInv, NEW j \in Jobs, NEW r, job' = [job EXCEPT ![j] = r]
  PROVE  /\ \A k \in Jobs \ {j} : Untouched(k)
         /\ job'[j] = r /\ job' = [k \in Jobs |-> job'[k]]
<1>1. job = [k \in Jobs |-> job[k]] /\ \A k \in Jobs : JobOK(k) BY DEF ControlInv
<1>2. job'[j] = r /\ (\A k \in Jobs \ {j} : job'[k] = job[k]) /\ job' = [k \in Jobs |-> job'[k]]
  BY <1>1
<1>3. \A k \in Jobs \ {j} : Untouched(k) BY <1>1, <1>2 DEF Untouched, JobOK
<1> QED BY <1>2, <1>3

-----------------------------------------------------------------------------
\* ControlInv, but for the jobs.
StateOK ==
    /\ status \in [Authorities -> AuthorityStatuses]
    /\ issuer \subseteq Authorities /\ keys \subseteq Authorities
    /\ crl \in [Authorities -> [known : BOOLEAN, revoked : SUBSET Certificates]]
    /\ lapsed \subseteq Authorities /\ overdue \subseteq Authorities
    /\ certificate \in [Certificates ->
          [status : {"none", "approved", "revoked"}, by : Authorities \cup {Nobody}]]
    /\ issuance \in [Certificates -> {"none", "open", "completed", "failed"}]
    /\ files \in Bundles /\ loaded \in Bundles
    /\ failures \in 0 .. MaxFailures
    /\ \A a \in Authorities \ External : status[a] # "none" => a \in keys
    /\ \A c \in Certificates :
          /\ issuance[c] = "completed" => certificate[c].status # "none"
          /\ issuance[c] = "failed" => certificate[c].status = "none"
    /\ LabsOK

LEMMA ControlInvIs == ControlInv <=> StateOK /\ job = [j \in Jobs |-> job[j]] /\ \A j \in Jobs : JobOK(j)
<1>1. ControlInv => StateOK BY DEF ControlInv, IssuersHaveKeys, PkiTypeOK, StateOK
<1>2. ASSUME StateOK, \A j \in Jobs : JobOK(j) PROVE IssuersHaveKeys
  <2>1. \A j \in Jobs : /\ job[j].bundle \in Bundles /\ job[j].left \subseteq {"ca", "crl"}
                        /\ job[j].left # {} => job[j].op # "none"
    BY <1>2 DEF JobOK, JobRecords, Named
  <2> QED BY <1>2, <2>1 DEF IssuersHaveKeys, PkiTypeOK, StateOK
<1> QED BY <1>1, <1>2 DEF ControlInv, StateOK

LEMMA ControlInvNext ==
  ASSUME StateOK', job' = [k \in Jobs |-> job'[k]], \A k \in Jobs : JobOK(k)'
  PROVE  ControlInv'
<1>1. (job = [j \in Jobs |-> job[j]])' OBVIOUS
<1>2. (\A j \in Jobs : JobOK(j))' OBVIOUS
<1> QED BY <1>1, <1>2, ControlInvIs, PTL

\* A step that goes on to the next one, where it neither created nor certified.
LEMMA QuietTail ==
  ASSUME ControlInv, NEW j \in Jobs, \A k \in Jobs \ {j} : Untouched(k),
         job[j].todo # <<>>,
         Head(job[j].todo).do \notin Creating \cup Certifying,
         job'[j] \in JobRecords, Named(job'[j]),
         job'[j].todo = Tail(job[j].todo),
         job'[j].todo # <<>> => job'[j].cert = job[j].cert,
         Head(job[j].todo).do = "list" /\ job'[j].todo # <<>> => job'[j].seen \subseteq Certificates,
         Rows' = Rows,
         \A c \in Certificates : Issued(c)' = Issued(c),
         \A w \in Workspaces : workspace[w] # "none" => workspace'[w] # "none",
         keys' = keys, issuance' = issuance
  PROVE  \A k \in Jobs : JobOK(k)'
<1> DEFINE s == job[j].todo
<1>1. /\ Sound(Tail(s), Rows, Issued(job[j].cert))
      /\ Tail(s) # <<>> => Follows(Head(s), Head(Tail(s)))
  <2>1. Inserts(Head(s)) = {} BY NextStepIs
  <2>2. Rows \cup {} = Rows OBVIOUS
  <2> QED BY <2>1, <2>2, NextStepIs
<1>2. Sound(job'[j].todo, Rows, Issued(job[j].cert)')
  <2>1. CASE Tail(s) = <<>> BY <2>1, FreeIs, PlainIsSound
  <2>2. CASE Tail(s) # <<>>
    <3>1. Issued(job[j].cert) => Issued(job[j].cert)' BY <2>2 DEF Issued
    <3> QED BY <1>1, <3>1, SoundGrows
  <2> QED BY <2>1, <2>2
<1>3. Tail(s) # <<>> => Head(Tail(s)).do \notin Creating \cup Certifying
  BY <1>1 DEF Follows, Creating, Certifying
<1>4. Pending(j, "save")' => job'[j].seen \subseteq Certificates
  BY <1>1 DEF Pending, Follows
<1> QED BY <1>2, <1>3, <1>4, QuietKept

\* The same, of what goes on by Advance.
LEMMA QuietAdvance ==
  ASSUME ControlInv, NEW j \in Jobs, NEW q \in JobRecords, job' = [job EXCEPT ![j] = Advanced(q)],
         q.todo = job[j].todo, q.cert = job[j].cert, q.left = job[j].left, q.op = job[j].op,
         job[j].todo # <<>>,
         Head(job[j].todo).do \notin Creating \cup Certifying \cup {"list"},
         Rows' = Rows,
         \A c \in Certificates : Issued(c)' = Issued(c),
         \A w \in Workspaces : workspace[w] # "none" => workspace'[w] # "none",
         keys' = keys, issuance' = issuance
  PROVE  job' = [k \in Jobs |-> job'[k]] /\ \A k \in Jobs : JobOK(k)'
<1>1. Named(q) BY NextStepIs DEF Named
<1>2. /\ \A k \in Jobs \ {j} : Untouched(k)
      /\ job'[j] = Advanced(q) /\ job' = [k \in Jobs |-> job'[k]]
  BY OnlyMoves
<1>3. /\ job'[j] \in JobRecords /\ Named(job'[j])
      /\ job'[j].todo = Tail(job[j].todo)
      /\ job'[j].todo # <<>> => job'[j].cert = job[j].cert
  BY <1>1, <1>2, AdvancedIs
<1>4. Head(job[j].todo).do # "list" /\ Head(job[j].todo).do \notin Creating \cup Certifying OBVIOUS
<1> QED BY <1>2, <1>3, <1>4, QuietTail

LEMMA PendingIs ==
  ASSUME NEW j, NEW do, Pending(j, do)
  PROVE  job[j].todo # <<>> /\ Head(job[j].todo).do = do /\ At(j) = Head(job[j].todo).at
BY DEF Pending, At

\* The rows and keys are as they were.
LEMMA SameRows ==
  ASSUME status' = status, certificate' = certificate, workspace' = workspace
  PROVE  /\ Rows' = Rows /\ \A c : Issued(c)' = Issued(c)
         /\ \A w \in Workspaces : workspace[w] # "none" => workspace'[w] # "none"
BY DEF Rows, Issued

LEMMA StateKept ==
  ASSUME StateOK, UNCHANGED <<rowVars, keys, failures, workspace>>,
         lapsed' \subseteq Authorities, overdue' \subseteq Authorities,
         files' \in Bundles, loaded' \in Bundles
  PROVE  StateOK'
BY DEF StateOK, rowVars, LabsOK, Issued

-----------------------------------------------------------------------------
\* The steps of PkiTrust.

LEMMA PutKeyKeeps ==
  ASSUME ControlInv, NEW j \in Jobs, PutKey(j), workspace' = workspace
  PROVE  ControlInv'
<1> DEFINE s == job[j].todo
           a == Head(s).at
<1>1. /\ s # <<>> /\ Head(s).do = "put" /\ At(j) = a
      /\ keys' = keys \cup {a} /\ job' = [job EXCEPT ![j] = Advanced(@)]
      /\ UNCHANGED <<rowVars, ageVars, trustVars, failures>>
  BY PendingIs DEF PutKey, Advance
<1>2. /\ StateOK /\ \A k \in Jobs : JobOK(k)
      /\ job = [k \in Jobs |-> job[k]]
  BY ControlInvIs
<1>3. /\ job[j] \in JobRecords /\ Named(job[j])
      /\ Sound(Tail(s), Rows, Issued(job[j].cert))
      /\ a \in Authorities
      /\ Tail(s) # <<>> => Follows(Head(s), Head(Tail(s)))
  <2>1. Rows \cup {} = Rows /\ Inserts(Head(s)) = {} BY <1>1 DEF Inserts
  <2> QED BY <1>1, <2>1, NextStepIs DEF Creating
<1>4. /\ Creates(j, a) /\ status[a] = "none" /\ a \notin External
      /\ \A w \in Workspaces : CaOf[w] = a => workspace[w] # "none"
  <2>1. Creates(j, a) BY <1>1 DEF Creates, Creating, At
  <2> QED BY <1>1, <1>2, <1>3, <2>1 DEF JobOK, CreatesNew, Pending
<1>5. /\ \A k \in Jobs \ {j} : Untouched(k)
      /\ job'[j] = Advanced(job[j]) /\ job' = [k \in Jobs |-> job'[k]]
  BY <1>1, OnlyMoves
<1>6. /\ job'[j] \in JobRecords /\ Named(job'[j])
      /\ job'[j].todo = Tail(s)
      /\ job'[j].todo # <<>> => job'[j].cert = job[j].cert
  BY <1>1, <1>3, <1>5, AdvancedIs
<1>7. Rows' = Rows /\ \A c : Issued(c)' = Issued(c)
  BY <1>1, SameRows DEF rowVars
<1>8. Sound(job'[j].todo, Rows', Issued(job[j].cert)')
  <2>1. CASE Tail(s) = <<>> BY <1>6, <2>1, FreeIs, PlainIsSound
  <2>2. CASE Tail(s) # <<>>
    <3>1. Issued(job[j].cert) => Issued(job[j].cert)' BY <1>1, <1>6, <2>2 DEF Issued, rowVars
    <3> QED BY <1>3, <1>6, <1>7, <3>1, SoundGrows
  <2> QED BY <2>1, <2>2
<1>9. job'[j].todo # <<>> =>
         /\ Head(job'[j].todo).do \notin Certifying \cup {"put", "drop", "save"}
         /\ Head(job'[j].todo).do = "insert" => Head(job'[j].todo).at = a
  BY <1>1, <1>3, <1>6 DEF Follows, Certifying
<1>10. \A b \in Authorities : Creates(j, b)' => b = a /\ Pending(j, "insert")' /\ ~Pending(j, "put")'
  BY <1>9 DEF Creates, Creating, At, Pending
<1>11. \A k \in Jobs : CreatesNew(k)'
  <2>1. keys \subseteq keys' /\ a \in keys' BY <1>1
  <2>2. status' = status /\ Rows \subseteq Rows' BY <1>1, <1>7 DEF rowVars
  <2> QED BY <1>4, <1>5, <1>7, <1>10, <2>1, <2>2, CreatesKept
<1>12. \A k \in Jobs : CertifiesNew(k)'
  <2>1. \A c : ~Certifies(j, c)' BY <1>9 DEF Certifies
  <2>2. issuance' = issuance BY <1>1 DEF rowVars
  <2> QED BY <1>5, <1>7, <2>1, <2>2, CertifiesKept
<1>13. Pending(j, "save")' => job'[j].seen \subseteq Certificates BY <1>9 DEF Pending
<1>14. \A k \in Jobs : JobOK(k)'
  <2>1. Rows \subseteq Rows' /\ \A c \in Certificates : Issued(c) => Issued(c)' BY <1>7
  <2> QED BY <1>5, <1>6, <1>8, <1>11, <1>12, <1>13, <2>1, JobsKept
<1>15. StateOK'
  BY <1>1, <1>2, <1>3 DEF StateOK, rowVars, ageVars, trustVars, LabsOK, Issued
<1> QED BY <1>5, <1>14, <1>15, ControlInvNext

LEMMA InsertAuthorityKeeps ==
  ASSUME ControlInv, NEW j \in Jobs, InsertAuthority(j), workspace' = workspace
  PROVE  ControlInv'
<1> DEFINE s == job[j].todo
           a == Head(s).at
<1>1. /\ s # <<>> /\ Head(s).do = "insert" /\ At(j) = a
      /\ status' = [status EXCEPT ![a] = "draft"]
      /\ crl' = [crl EXCEPT ![a].known = a \notin External]
      /\ job' = [job EXCEPT ![j] = Advanced(@)]
      /\ UNCHANGED <<issuer, certificate, issuance, keys, ageVars, trustVars, failures>>
  BY PendingIs DEF InsertAuthority, Advance
<1>2. /\ StateOK /\ \A k \in Jobs : JobOK(k)
      /\ job = [k \in Jobs |-> job[k]]
  BY ControlInvIs
<1>3. /\ job[j] \in JobRecords /\ Named(job[j])
      /\ Sound(Tail(s), Rows \cup {a}, Issued(job[j].cert))
      /\ a \in Authorities
      /\ Tail(s) # <<>> => Follows(Head(s), Head(Tail(s)))
  <2>1. Inserts(Head(s)) = {a} BY <1>1 DEF Inserts
  <2> QED BY <1>1, <2>1, NextStepIs DEF Creating
<1>4. /\ Creates(j, a) /\ status[a] = "none" /\ a \in keys \cup External
      /\ \A w \in Workspaces : CaOf[w] = a => workspace[w] # "none"
  <2>1. Creates(j, a) BY <1>1 DEF Creates, Creating, At
  <2> QED BY <1>1, <1>2, <1>3, <2>1 DEF JobOK, CreatesNew, Pending
<1>5. /\ \A k \in Jobs \ {j} : Untouched(k)
      /\ job'[j] = Advanced(job[j]) /\ job' = [k \in Jobs |-> job'[k]]
  BY <1>1, OnlyMoves
<1>6. /\ job'[j] \in JobRecords /\ Named(job'[j])
      /\ job'[j].todo = Tail(s)
      /\ job'[j].todo # <<>> => job'[j].cert = job[j].cert
  BY <1>1, <1>3, <1>5, AdvancedIs
<1>7. Rows' = Rows \cup {a} /\ \A c : Issued(c)' = Issued(c)
  BY <1>1, <1>2, <1>3 DEF Rows, Issued, StateOK
<1>8. Sound(job'[j].todo, Rows', Issued(job[j].cert)')
  <2>1. CASE Tail(s) = <<>> BY <1>6, <2>1, FreeIs, PlainIsSound
  <2>2. CASE Tail(s) # <<>>
    <3>1. Issued(job[j].cert) => Issued(job[j].cert)' BY <1>1, <1>6, <2>2 DEF Issued
    <3> QED BY <1>3, <1>6, <1>7, <3>1, SoundGrows
  <2> QED BY <2>1, <2>2
<1>9. job'[j].todo # <<>> => Head(job'[j].todo).do \notin Certifying \cup Creating \cup {"save"}
  BY <1>1, <1>3, <1>6 DEF Follows, Certifying, Creating
<1>10. \A b : ~Creates(j, b)' /\ ~Certifies(j, b)' BY <1>9 DEF Creates, Certifies
<1>11. \A k \in Jobs : CreatesNew(k)'
  <2>1. keys' = keys /\ Rows \subseteq Rows' /\ Rows' \ Rows \subseteq {a} BY <1>1, <1>7
  <2> QED BY <1>4, <1>5, <1>10, <2>1, CreatesKept
<1>12. \A k \in Jobs : CertifiesNew(k)'
  <2>1. issuance' = issuance BY <1>1
  <2> QED BY <1>5, <1>7, <1>10, <2>1, CertifiesKept
<1>13. Pending(j, "save")' => job'[j].seen \subseteq Certificates BY <1>9 DEF Pending
<1>14. \A k \in Jobs : JobOK(k)'
  <2>1. Rows \subseteq Rows' /\ \A c \in Certificates : Issued(c) => Issued(c)' BY <1>7
  <2> QED BY <1>5, <1>6, <1>8, <1>11, <1>12, <1>13, <2>1, JobsKept
<1>15. StateOK'
  <2>1. status' \in [Authorities -> AuthorityStatuses]
    BY <1>1, <1>2 DEF StateOK, AuthorityStatuses
  <2>2. crl' \in [Authorities -> [known : BOOLEAN, revoked : SUBSET Certificates]]
    <3>1. crl[a] \in [known : BOOLEAN, revoked : SUBSET Certificates] BY <1>2, <1>3 DEF StateOK
    <3>2. [crl[a] EXCEPT !.known = a \notin External] \in [known : BOOLEAN, revoked : SUBSET Certificates]
      <4>1. (a \notin External) \in BOOLEAN OBVIOUS
      <4> QED BY <3>1, <4>1
    <3>3. crl' = [crl EXCEPT ![a] = [crl[a] EXCEPT !.known = a \notin External]] BY <1>1
    <3> QED BY <1>2, <3>2, <3>3 DEF StateOK
  <2>3. LabsOK'
    <3>1. \A w \in Workspaces : workspace[w] = "none" => CaOf[w] # a BY <1>4
    <3>2. CaOf \in [Workspaces -> Authorities \ External] BY LabAssumption
    <3> QED BY <1>1, <1>2, <3>1, <3>2 DEF StateOK, LabsOK, Issued
  <2>4. \A b \in Authorities \ External : status'[b] # "none" => b \in keys'
    BY <1>1, <1>2, <1>4 DEF StateOK
  <2> QED BY <1>1, <1>2, <2>1, <2>2, <2>3, <2>4 DEF StateOK, ageVars, trustVars
<1> QED BY <1>5, <1>14, <1>15, ControlInvNext

LEMMA DropKeyKeeps ==
  ASSUME ControlInv, NEW j \in Jobs, DropKey(j), workspace' = workspace
  PROVE  ControlInv'
<1> DEFINE s == job[j].todo
           a == Head(s).at
<1>1. /\ s # <<>> /\ Head(s).do = "drop" /\ At(j) = a
      /\ keys' = keys \ {a} /\ job' = [job EXCEPT ![j] = Advanced(@)]
      /\ UNCHANGED <<rowVars, ageVars, trustVars, failures>>
  BY PendingIs DEF DropKey, Advance
<1>2. /\ StateOK /\ \A k \in Jobs : JobOK(k)
      /\ job = [k \in Jobs |-> job[k]]
  BY ControlInvIs
<1>3. /\ job[j] \in JobRecords /\ Named(job[j])
      /\ Sound(Tail(s), Rows, Issued(job[j].cert))
      /\ a \in Authorities
      /\ Tail(s) # <<>> => Follows(Head(s), Head(Tail(s)))
  <2>1. Rows \cup {} = Rows /\ Inserts(Head(s)) = {} BY <1>1 DEF Inserts
  <2> QED BY <1>1, <2>1, NextStepIs DEF Creating
<1>4. Creates(j, a) /\ status[a] = "none"
  <2>1. Creates(j, a) BY <1>1 DEF Creates, Creating, At
  <2> QED BY <1>1, <1>2, <1>3, <2>1 DEF JobOK, CreatesNew, Pending
<1>5. /\ \A k \in Jobs \ {j} : Untouched(k)
      /\ job'[j] = Advanced(job[j]) /\ job' = [k \in Jobs |-> job'[k]]
  BY <1>1, OnlyMoves
<1>6. /\ job'[j] \in JobRecords /\ Named(job'[j])
      /\ job'[j].todo = Tail(s)
      /\ job'[j].todo # <<>> => job'[j].cert = job[j].cert
  BY <1>1, <1>3, <1>5, AdvancedIs
<1>7. Rows' = Rows /\ \A c : Issued(c)' = Issued(c)
  BY <1>1, SameRows DEF rowVars
<1>8. Sound(job'[j].todo, Rows', Issued(job[j].cert)')
  <2>1. CASE Tail(s) = <<>> BY <1>6, <2>1, FreeIs, PlainIsSound
  <2>2. CASE Tail(s) # <<>>
    <3>1. Issued(job[j].cert) => Issued(job[j].cert)' BY <1>1, <1>6, <2>2 DEF Issued, rowVars
    <3> QED BY <1>3, <1>6, <1>7, <3>1, SoundGrows
  <2> QED BY <2>1, <2>2
<1>9. job'[j].todo # <<>> => Head(job'[j].todo).do \notin Certifying \cup Creating \cup {"save"}
  BY <1>1, <1>3, <1>6 DEF Follows, Certifying, Creating
<1>10. \A b : ~Creates(j, b)' /\ ~Certifies(j, b)' BY <1>9 DEF Creates, Certifies
<1>11. \A k \in Jobs : CreatesNew(k)'
  <2>1. keys \ keys' \subseteq {a} /\ Rows \subseteq Rows' BY <1>1, <1>7
  <2> QED BY <1>4, <1>5, <1>7, <1>10, <2>1, CreatesKept
<1>12. \A k \in Jobs : CertifiesNew(k)'
  <2>1. issuance' = issuance BY <1>1 DEF rowVars
  <2> QED BY <1>5, <1>7, <1>10, <2>1, CertifiesKept
<1>13. Pending(j, "save")' => job'[j].seen \subseteq Certificates BY <1>9 DEF Pending
<1>14. \A k \in Jobs : JobOK(k)'
  <2>1. Rows \subseteq Rows' /\ \A c \in Certificates : Issued(c) => Issued(c)' BY <1>7
  <2> QED BY <1>5, <1>6, <1>8, <1>11, <1>12, <1>13, <2>1, JobsKept
<1>15. StateOK'
  BY <1>1, <1>2, <1>4 DEF StateOK, rowVars, ageVars, trustVars, LabsOK, Issued
<1> QED BY <1>5, <1>14, <1>15, ControlInvNext

LEMMA ClearDefaultsKeeps ==
  ASSUME ControlInv, NEW j \in Jobs, ClearDefaults(j), workspace' = workspace
  PROVE  ControlInv'
<1> DEFINE seen == IF At(j) \in External THEN {} ELSE {a \in issuer : HomeOf[a] = HomeOf[At(j)]}
           r == [job[j] EXCEPT !.todo = Tail(@), !.seen = seen]
<1>1. /\ job[j].todo # <<>> /\ Head(job[j].todo).do = "clear"
      /\ job' = [job EXCEPT ![j] = r]
      /\ UNCHANGED <<rowVars, keys, ageVars, trustVars, failures>>
  BY PendingIs DEF ClearDefaults
<1>2. StateOK BY ControlInvIs
<1>3. job[j] \in JobRecords /\ Named(job[j]) BY <1>1, NextStepIs
<1>4. seen \subseteq Authorities BY <1>2 DEF StateOK
<1> HIDE DEF seen
<1>5. /\ r \in JobRecords /\ r.todo = Tail(job[j].todo) /\ r.cert = job[j].cert
      /\ Named(r)
  <2>1. Tail(job[j].todo) \in Seq(StepSet) BY <1>1, <1>3, TailIs DEF JobRecords
  <2> QED BY <1>1, <1>3, <1>4, <2>1 DEF JobRecords, Named
<1> HIDE DEF r
<1>6. /\ \A k \in Jobs \ {j} : Untouched(k)
      /\ job'[j] = r /\ job' = [k \in Jobs |-> job'[k]]
  BY <1>1, OnlyMoves
<1>7. Head(job[j].todo).do \notin Creating \cup Certifying \cup {"list"} BY <1>1 DEF Creating, Certifying
<1>8. \A k \in Jobs : JobOK(k)'
  <2>1. /\ Rows' = Rows /\ \A c \in Certificates : Issued(c)' = Issued(c)
        /\ keys' = keys /\ issuance' = issuance
        /\ \A w \in Workspaces : workspace[w] # "none" => workspace'[w] # "none"
    BY <1>1, SameRows DEF rowVars
  <2> QED BY <1>1, <1>3, <1>5, <1>6, <1>7, <2>1, QuietTail
<1>9. StateOK' BY <1>1, <1>2 DEF StateOK, rowVars, ageVars, trustVars, LabsOK, Issued
<1> QED BY <1>6, <1>8, <1>9, ControlInvNext

LEMMA ListRevokedKeeps ==
  ASSUME ControlInv, NEW j \in Jobs, ListRevoked(j), workspace' = workspace
  PROVE  ControlInv'
<1> DEFINE seen == IF At(j) \in External THEN {}
                   ELSE {c \in Certificates : certificate[c].status = "revoked"
                                               /\ certificate[c].by = At(j)}
           r == [job[j] EXCEPT !.todo = Tail(@), !.seen = seen]
<1>1. /\ job[j].todo # <<>> /\ Head(job[j].todo).do = "list"
      /\ job' = [job EXCEPT ![j] = r]
      /\ UNCHANGED <<rowVars, keys, ageVars, trustVars, failures>>
  BY PendingIs DEF ListRevoked
<1>2. StateOK BY ControlInvIs
<1>3. job[j] \in JobRecords /\ Named(job[j]) BY <1>1, NextStepIs
<1>4. seen \subseteq Certificates OBVIOUS
<1> HIDE DEF seen
<1>5. /\ r \in JobRecords /\ r.todo = Tail(job[j].todo) /\ r.cert = job[j].cert
      /\ Named(r) /\ r.seen = seen
  <2>1. Tail(job[j].todo) \in Seq(StepSet) BY <1>1, <1>3, TailIs DEF JobRecords
  <2> QED BY <1>1, <1>3, <1>4, <2>1 DEF JobRecords, Named
<1> HIDE DEF r
<1>6. /\ \A k \in Jobs \ {j} : Untouched(k)
      /\ job'[j] = r /\ job' = [k \in Jobs |-> job'[k]]
  BY <1>1, OnlyMoves
<1>7. Head(job[j].todo).do \notin Creating \cup Certifying BY <1>1 DEF Creating, Certifying
<1>8. \A k \in Jobs : JobOK(k)'
  <2>1. /\ Rows' = Rows /\ \A c \in Certificates : Issued(c)' = Issued(c)
        /\ keys' = keys /\ issuance' = issuance
        /\ \A w \in Workspaces : workspace[w] # "none" => workspace'[w] # "none"
    BY <1>1, SameRows DEF rowVars
  <2> QED BY <1>1, <1>3, <1>4, <1>5, <1>6, <1>7, <2>1, QuietTail
<1>9. StateOK' BY <1>1, <1>2 DEF StateOK, rowVars, ageVars, trustVars, LabsOK, Issued
<1> QED BY <1>6, <1>8, <1>9, ControlInvNext

LEMMA ReadTrustKeeps ==
  ASSUME ControlInv, NEW j \in Jobs, ReadTrust(j), workspace' = workspace
  PROVE  ControlInv'
<1> DEFINE r == [job[j] EXCEPT !.todo = Tail(@), !.bundle = buildTrustBundle, !.left = {"ca", "crl"}]
<1>1. /\ job[j].todo # <<>> /\ Head(job[j].todo).do = "read"
      /\ job' = [job EXCEPT ![j] = r]
      /\ UNCHANGED <<rowVars, keys, ageVars, trustVars, failures>>
  BY PendingIs DEF ReadTrust
<1>2. StateOK /\ \A k \in Jobs : JobOK(k) BY ControlInvIs
<1>3. job[j] \in JobRecords /\ Named(job[j]) BY <1>1, NextStepIs
<1>4. buildTrustBundle \in Bundles
  <2>1. \A a \in Authorities : ListOf(a) \subseteq Authorities \X SUBSET Certificates
    BY <1>2 DEF ListOf, StateOK
  <2>2. Trusted \subseteq Authorities BY DEF Trusted
  <2>3. UNION {ListOf(a) : a \in Trusted} \in SUBSET (Authorities \X SUBSET Certificates)
    BY <2>1, <2>2
  <2> QED BY <2>2, <2>3 DEF buildTrustBundle, Bundles
<1>5. /\ r \in JobRecords /\ r.todo = Tail(job[j].todo) /\ r.cert = job[j].cert /\ r.op = job[j].op
  <2>1. Tail(job[j].todo) \in Seq(StepSet) BY <1>1, <1>3, TailIs DEF JobRecords
  <2> QED BY <1>3, <1>4, <2>1 DEF JobRecords
<1>10. Named(r) BY <1>1, <1>3, <1>5 DEF Named
<1> HIDE DEF r
<1>6. /\ \A k \in Jobs \ {j} : Untouched(k)
      /\ job'[j] = r /\ job' = [k \in Jobs |-> job'[k]]
  BY <1>1, OnlyMoves
<1>7. Head(job[j].todo).do \notin Creating \cup Certifying \cup {"list"} BY <1>1 DEF Creating, Certifying
<1>8. \A k \in Jobs : JobOK(k)'
  <2>1. /\ Rows' = Rows /\ \A c \in Certificates : Issued(c)' = Issued(c)
        /\ keys' = keys /\ issuance' = issuance
        /\ \A w \in Workspaces : workspace[w] # "none" => workspace'[w] # "none"
    BY <1>1, SameRows DEF rowVars
  <2> QED BY <1>1, <1>5, <1>10, <1>6, <1>7, <2>1, QuietTail
<1>9. StateOK' BY <1>1, <1>2 DEF StateOK, rowVars, ageVars, trustVars, LabsOK, Issued
<1> QED BY <1>6, <1>8, <1>9, ControlInvNext

LEMMA CommitStatusKeeps ==
  ASSUME ControlInv, NEW j \in Jobs, CommitStatus(j), workspace' = workspace
  PROVE  ControlInv'
<1> DEFINE a == Head(job[j].todo).at
           q == [job[j] EXCEPT !.seen = {}]
<1>1. PICK to \in Settling :
         /\ job[j].todo # <<>> /\ Head(job[j].todo).do = to /\ At(j) = a
         /\ status' = [status EXCEPT ![a] = to]
         /\ issuer' = IF to = "active" THEN (issuer \ job[j].seen) \cup ({a} \ External)
                      ELSE issuer \ {a}
  BY PendingIs DEF CommitStatus, Settling
<1>2. /\ job' = [job EXCEPT ![j] = Advanced(q)]
      /\ UNCHANGED <<crl, certificate, issuance, keys, ageVars, trustVars, failures>>
  BY DEF CommitStatus
<1>3. StateOK BY ControlInvIs
<1>4. /\ job[j] \in JobRecords /\ a \in Authorities /\ a \in Rows
  BY <1>1, NextStepIs
<1>5. q \in JobRecords /\ q.todo = job[j].todo /\ q.cert = job[j].cert /\ q.left = job[j].left /\ q.op = job[j].op
  BY <1>4 DEF JobRecords
<1> HIDE DEF q
<1>6. Rows' = Rows /\ (\A c \in Certificates : Issued(c)' = Issued(c))
  BY <1>1, <1>2, <1>3, <1>4 DEF Rows, Issued, StateOK, Settling
<1>7. job' = [k \in Jobs |-> job'[k]] /\ \A k \in Jobs : JobOK(k)'
  <2>1. Head(job[j].todo).do \notin Creating \cup Certifying \cup {"list"}
    BY <1>1 DEF Creating, Certifying, Settling
  <2>2. keys' = keys /\ issuance' = issuance BY <1>2
  <2> QED BY <1>1, <1>2, <1>5, <1>6, <2>1, <2>2, QuietAdvance
<1>8. StateOK'
  <2>1. status' \in [Authorities -> AuthorityStatuses] /\ issuer' \subseteq Authorities
    BY <1>1, <1>3, <1>4 DEF StateOK, AuthorityStatuses, Settling
  <2>2. \A b \in Authorities \ External : status'[b] # "none" => b \in keys'
    BY <1>2, <1>3, <1>6 DEF StateOK, Rows
  <2>3. LabsOK'
    <3>1. CaOf \in [Workspaces -> Authorities \ External] BY LabAssumption
    <3>2. \A b \in Authorities : status[b] = "none" => status'[b] = "none" BY <1>6 DEF Rows
    <3> QED BY <1>2, <1>3, <3>1, <3>2 DEF StateOK, LabsOK, Issued
  <2> QED BY <1>2, <1>3, <2>1, <2>2, <2>3 DEF StateOK, ageVars, trustVars
<1> QED BY <1>7, <1>8, ControlInvNext

LEMMA UnapproveKeeps ==
  ASSUME ControlInv, NEW j \in Jobs, Unapprove(j), workspace' = workspace
  PROVE  ControlInv'
<1> DEFINE c == job[j].cert
<1>1. /\ job[j].todo # <<>> /\ Head(job[j].todo).do = "unapprove"
      /\ certificate' = [certificate EXCEPT ![c].status = "revoked"]
      /\ job' = [job EXCEPT ![j] = Advanced(@)]
      /\ UNCHANGED <<status, issuer, crl, issuance, keys, ageVars, trustVars, failures>>
  BY PendingIs DEF Unapprove, Advance
<1>2. StateOK /\ job = [k \in Jobs |-> job[k]] BY ControlInvIs
<1>3. job[j] \in JobRecords /\ Issued(c) BY <1>1, NextStepIs
<1>4. /\ certificate' = [certificate EXCEPT ![c] = [certificate[c] EXCEPT !.status = "revoked"]]
      /\ c \in Certificates
  BY <1>1, <1>3 DEF Issued
<1>5. [certificate[c] EXCEPT !.status = "revoked"] \in
         [status : {"none", "approved", "revoked"}, by : Authorities \cup {Nobody}]
      /\ [certificate[c] EXCEPT !.status = "revoked"].status = "revoked"
      /\ [certificate[c] EXCEPT !.status = "revoked"].by = certificate[c].by
  BY <1>2, <1>4 DEF StateOK
<1>6. /\ certificate' \in [Certificates -> [status : {"none", "approved", "revoked"}, by : Authorities \cup {Nobody}]]
      /\ certificate'[c].status = "revoked"
      /\ \A d \in Certificates : certificate'[d].by = certificate[d].by
      /\ \A d \in Certificates \ {c} : certificate'[d] = certificate[d]
  BY <1>2, <1>4, <1>5 DEF StateOK
<1>7. Rows' = Rows /\ (\A d \in Certificates : Issued(d)' = Issued(d))
  BY <1>1, <1>3, <1>6 DEF Rows, Issued
<1>8. job' = [k \in Jobs |-> job'[k]] /\ \A k \in Jobs : JobOK(k)'
  <2>1. Head(job[j].todo).do \notin Creating \cup Certifying \cup {"list"}
    BY <1>1 DEF Creating, Certifying
  <2>2. keys' = keys /\ issuance' = issuance BY <1>1
  <2>3. job' = [job EXCEPT ![j] = Advanced(job[j])] BY <1>1
  <2> QED BY <1>1, <1>3, <1>7, <2>1, <2>2, <2>3, QuietAdvance
<1>9. StateOK'
  <2>1. \A d \in Certificates :
          /\ issuance'[d] = "completed" => certificate'[d].status # "none"
          /\ issuance'[d] = "failed" => certificate'[d].status = "none"
    BY <1>1, <1>2, <1>3, <1>6 DEF StateOK, Issued
  <2>2. LabsOK' BY <1>1, <1>2, <1>6, <1>7 DEF StateOK, LabsOK
  <2> QED BY <1>1, <1>2, <1>6, <2>1, <2>2 DEF StateOK, ageVars, trustVars
<1> QED BY <1>8, <1>9, ControlInvNext

LEMMA SaveCrlKeeps ==
  ASSUME ControlInv, NEW j \in Jobs, SaveCrl(j), workspace' = workspace
  PROVE  ControlInv'
<1> DEFINE todo == IF status[At(j)] \in {"active", "retiring"} THEN Publication ELSE <<>>
           q == [job[j] EXCEPT !.seen = {}, !.todo = todo]
<1>1. /\ Pending(j, "save") /\ job[j].todo # <<>> /\ Head(job[j].todo).do = "save"
      /\ crl' = [crl EXCEPT ![At(j)] = [known |-> TRUE, revoked |-> job[j].seen]]
      /\ overdue' = overdue \ {At(j)}
      /\ job' = [job EXCEPT ![j] = Settled(q)]
      /\ UNCHANGED <<status, issuer, certificate, issuance, keys, lapsed, trustVars, failures>>
  BY PendingIs DEF SaveCrl
<1>2. StateOK /\ (\A k \in Jobs : JobOK(k)) /\ job = [k \in Jobs |-> job[k]] BY ControlInvIs
<1>3. job[j] \in JobRecords /\ Named(job[j]) BY <1>1, NextStepIs
<1>4. Plain(todo) BY PlainSequences
<1> HIDE DEF todo
<1>5. q \in JobRecords /\ q.todo = todo /\ q.left = job[j].left /\ q.op = job[j].op
  <2>1. todo \in Seq(StepSet) BY <1>4 DEF Plain
  <2> QED BY <1>3, <2>1 DEF JobRecords
<1> HIDE DEF q
<1>6. /\ \A k \in Jobs \ {j} : Untouched(k)
      /\ job'[j] = Settled(q) /\ job' = [k \in Jobs |-> job'[k]]
  BY <1>1, OnlyMoves
<1>7. /\ job'[j] \in JobRecords /\ Named(job'[j])
      /\ job'[j].todo = todo
  <2>1. Named(q) BY <1>1, <1>3, <1>5 DEF Named
  <2> QED BY <1>5, <1>6, <2>1, SettledIs
<1>8. \A k \in Jobs : JobOK(k)'
  <2>1. /\ Rows' = Rows /\ \A d \in Certificates : Issued(d)' = Issued(d)
        /\ \A w \in Workspaces : workspace[w] # "none" => workspace'[w] # "none"
    BY <1>1, SameRows
  <2>2. /\ Sound(job'[j].todo, Rows, Issued(job[j].cert)')
        /\ job'[j].todo # <<>> => Head(job'[j].todo).do \notin Creating \cup Certifying \cup {"save"}
    BY <1>4, <1>7, PlainIsSound
  <2>3. Pending(j, "save")' => job'[j].seen \subseteq Certificates BY <2>2 DEF Pending
  <2>4. job'[j].todo # <<>> => Head(job'[j].todo).do \notin Creating \cup Certifying BY <2>2
  <2>5. keys' = keys /\ issuance' = issuance BY <1>1
  <2> QED BY <1>6, <1>7, <2>1, <2>2, <2>3, <2>4, <2>5, QuietKept
<1>9. StateOK'
  <2>1. crl' \in [Authorities -> [known : BOOLEAN, revoked : SUBSET Certificates]]
    <3>1. [known |-> TRUE, revoked |-> job[j].seen] \in [known : BOOLEAN, revoked : SUBSET Certificates]
      BY <1>1, <1>2 DEF JobOK
    <3> QED BY <1>1, <1>2, <3>1 DEF StateOK
  <2> QED BY <1>1, <1>2, <2>1 DEF StateOK, trustVars, LabsOK, Issued
<1> QED BY <1>6, <1>8, <1>9, ControlInvNext

LEMMA TriggerKeeps ==
  ASSUME ControlInv, NEW j \in Jobs, Trigger(j), workspace' = workspace
  PROVE  ControlInv'
<1>1. /\ job[j].todo # <<>> /\ Head(job[j].todo).do = "trigger"
      /\ loaded' = files /\ job' = [job EXCEPT ![j] = Advanced(job[j])]
      /\ UNCHANGED <<rowVars, keys, ageVars, files, failures>>
  BY PendingIs DEF Trigger, Advance
<1>2. StateOK BY ControlInvIs
<1>3. job[j] \in JobRecords BY <1>1, NextStepIs
<1>4. job' = [k \in Jobs |-> job'[k]] /\ \A k \in Jobs : JobOK(k)'
  <2>1. Head(job[j].todo).do \notin Creating \cup Certifying \cup {"list"}
    BY <1>1 DEF Creating, Certifying
  <2>2. /\ Rows' = Rows /\ \A c \in Certificates : Issued(c)' = Issued(c)
        /\ keys' = keys /\ issuance' = issuance
        /\ \A w \in Workspaces : workspace[w] # "none" => workspace'[w] # "none"
    BY <1>1, SameRows DEF rowVars
  <2> QED BY <1>1, <1>3, <2>1, <2>2, QuietAdvance
<1>5. StateOK' BY <1>1, <1>2 DEF StateOK, rowVars, ageVars, LabsOK, Issued
<1> QED BY <1>4, <1>5, ControlInvNext

\* A step of an issuance or registration.
LEMMA CertifyingAdvance ==
  ASSUME ControlInv, NEW j \in Jobs, NEW c, c = job[j].cert,
         job' = [job EXCEPT ![j] = Advanced(job[j])],
         job[j].todo # <<>>, Head(job[j].todo).do \in Certifying,
         status' = status, keys' = keys, workspace' = workspace,
         \A d \in Certificates \ {c} : Issued(d)' = Issued(d) /\ issuance'[d] = issuance[d],
         Head(job[j].todo).do # "record" => ~Issued(c)',
         Head(job[j].todo).do \in {"request", "sign"} => issuance'[c] = "open"
  PROVE  job' = [k \in Jobs |-> job'[k]] /\ \A k \in Jobs : JobOK(k)'
<1> DEFINE s == job[j].todo
<1>1. /\ job[j] \in JobRecords /\ Named(job[j])
      /\ Sound(Tail(s), Rows, Issued(c))
      /\ Tail(s) # <<>> => Follows(Head(s), Head(Tail(s)))
  <2>1. Inserts(Head(s)) = {} BY DEF Inserts, Certifying
  <2>2. Rows \cup {} = Rows OBVIOUS
  <2> QED BY <2>1, <2>2, NextStepIs
<1>2. Certifies(j, c) /\ c \in Certificates \cup {Nobody} BY <1>1 DEF Certifies, JobRecords
<1>3. c \in Certificates /\ ~Issued(c) BY <1>2 DEF ControlInv, JobOK, CertifiesNew
<1>4. /\ \A k \in Jobs \ {j} : Untouched(k)
      /\ job'[j] = Advanced(job[j]) /\ job' = [k \in Jobs |-> job'[k]]
  BY OnlyMoves
<1>5. /\ job'[j] \in JobRecords /\ Named(job'[j])
      /\ job'[j].todo = Tail(s)
      /\ job'[j].todo # <<>> => job'[j].cert = c
  BY <1>1, <1>4, AdvancedIs
<1>6. job'[j].todo # <<>> =>
         /\ Head(job'[j].todo).do \notin Creating \cup {"save", "request", "failed"}
         /\ Head(job'[j].todo).do \in Certifying => Head(s).do \in {"request", "sign"}
  BY <1>1, <1>5 DEF Follows, Creating, Certifying
<1>7. \A a : ~Creates(j, a)' BY <1>6 DEF Creates
<1>8. \A d : Certifies(j, d)' => /\ d = c /\ ~Issued(c)' /\ issuance'[c] = "open"
                                 /\ ~Pending(j, "request")'
  BY <1>5, <1>6 DEF Certifies, Pending
<1>9. Rows' = Rows BY DEF Rows
<1>10. \A k \in Jobs : CreatesNew(k)'
  <2>1. \A w \in Workspaces : workspace[w] # "none" => workspace'[w] # "none" OBVIOUS
  <2> QED BY <1>4, <1>7, <1>9, <2>1, CreatesKept
<1>11. \A d \in Certificates :
          /\ Issued(d) => Issued(d)'
          /\ Issued(d)' => Issued(d) \/ (Certifies(j, d) /\ ~Certifies(j, d)')
          /\ issuance'[d] # issuance[d] => Certifies(j, d)
  <2> TAKE d \in Certificates
  <2>1. CASE d # c BY <2>1
  <2>2. CASE d = c BY <1>2, <1>3, <1>8, <2>2
  <2> QED BY <2>1, <2>2
<1>12. \A k \in Jobs : CertifiesNew(k)' BY <1>2, <1>3, <1>4, <1>8, <1>11, CertifiesKept
<1>13. Sound(job'[j].todo, Rows', Issued(job[j].cert)')
  <2>1. CASE Tail(s) = <<>> BY <1>5, <2>1, FreeIs, PlainIsSound
  <2>2. CASE Tail(s) # <<>>
    <3>1. Issued(c) => Issued(job[j].cert)' BY <1>3
    <3> QED BY <1>1, <1>5, <1>9, <3>1, SoundGrows
  <2> QED BY <2>1, <2>2
<1>14. Pending(j, "save")' => job'[j].seen \subseteq Certificates BY <1>6 DEF Pending
<1>15. Rows \subseteq Rows' /\ \A d \in Certificates : Issued(d) => Issued(d)' BY <1>9, <1>11
<1> QED BY <1>4, <1>5, <1>10, <1>12, <1>13, <1>14, <1>15, JobsKept

\* What is about to be certified.
LEMMA CertifyingIs ==
  ASSUME ControlInv, NEW j \in Jobs, NEW do \in Certifying, Pending(j, do)
  PROVE  LET c == job[j].cert IN
         /\ job[j].todo # <<>> /\ Head(job[j].todo).do = do
         /\ c \in Certificates /\ ~Issued(c)
         /\ issuance[c] \in {"none", "open"} /\ (do = "sign" => issuance[c] = "open")
         /\ At(j) \in Authorities
<1>1. job[j].todo # <<>> /\ Head(job[j].todo).do = do /\ At(j) = Head(job[j].todo).at BY PendingIs
<1>2. job[j] \in JobRecords /\ At(j) \in Authorities BY <1>1, NextStepIs
<1>3. Certifies(j, job[j].cert) /\ job[j].cert \in Certificates \cup {Nobody}
  BY <1>1, <1>2 DEF Certifies, JobRecords
<1>4. CertifiesNew(j) BY DEF ControlInv, JobOK
<1> QED BY <1>1, <1>2, <1>3, <1>4 DEF CertifiesNew

LEMMA RequestIssuanceKeeps ==
  ASSUME ControlInv, NEW j \in Jobs, RequestIssuance(j), workspace' = workspace
  PROVE  ControlInv'
<1> PICK c : c = job[j].cert OBVIOUS
<1>1. /\ Pending(j, "request") /\ issuance' = [issuance EXCEPT ![c] = "open"]
      /\ job' = [job EXCEPT ![j] = Advanced(job[j])]
      /\ UNCHANGED <<status, issuer, crl, certificate, keys, ageVars, trustVars, failures>>
  BY DEF RequestIssuance, Advance
<1>2. /\ job[j].todo # <<>> /\ Head(job[j].todo).do = "request"
      /\ c \in Certificates /\ ~Issued(c)
  BY <1>1, CertifyingIs DEF Certifying
<1>3. StateOK BY ControlInvIs
<1>4. /\ \A d : Issued(d)' = Issued(d)
      /\ \A d \in Certificates \ {c} : issuance'[d] = issuance[d]
      /\ issuance'[c] = "open"
  BY <1>1, <1>2, <1>3 DEF Issued, StateOK
<1>5. job' = [k \in Jobs |-> job'[k]] /\ \A k \in Jobs : JobOK(k)'
  <2>1. status' = status /\ keys' = keys /\ ~Issued(c)' BY <1>1, <1>2, <1>4
  <2> QED BY <1>1, <1>2, <1>4, <2>1, CertifyingAdvance DEF Certifying
<1>6. StateOK' BY <1>1, <1>2, <1>3, <1>4 DEF StateOK, ageVars, trustVars, LabsOK, Issued
<1> QED BY <1>5, <1>6, ControlInvNext

LEMMA SignCertificateKeeps ==
  ASSUME ControlInv, NEW j \in Jobs, SignCertificate(j), workspace' = workspace
  PROVE  ControlInv'
<1> PICK c : c = job[j].cert OBVIOUS
<1>1. /\ Pending(j, "sign")
      /\ job' = [job EXCEPT ![j] = Advanced(job[j])]
      /\ UNCHANGED <<rowVars, keys, ageVars, trustVars, failures>>
  BY DEF SignCertificate, Advance
<1>2. /\ job[j].todo # <<>> /\ Head(job[j].todo).do = "sign"
      /\ c \in Certificates /\ ~Issued(c) /\ issuance[c] = "open"
  BY <1>1, CertifyingIs DEF Certifying
<1>3. StateOK BY ControlInvIs
<1>4. (\A d : Issued(d)' = Issued(d)) /\ issuance' = issuance BY <1>1 DEF Issued, rowVars
<1>5. job' = [k \in Jobs |-> job'[k]] /\ \A k \in Jobs : JobOK(k)'
  <2>1. status' = status /\ keys' = keys /\ ~Issued(c)' BY <1>1, <1>2, <1>4 DEF rowVars
  <2> QED BY <1>1, <1>2, <1>4, <2>1, CertifyingAdvance DEF Certifying
<1>6. StateOK' BY <1>1, <1>3 DEF StateOK, rowVars, ageVars, trustVars, LabsOK, Issued
<1> QED BY <1>5, <1>6, ControlInvNext

LEMMA RecordCertificateKeeps ==
  ASSUME ControlInv, NEW j \in Jobs, RecordCertificate(j), workspace' = workspace
  PROVE  ControlInv'
<1> PICK c : c = job[j].cert OBVIOUS
<1>1. /\ Pending(j, "record")
      /\ certificate' = [certificate EXCEPT ![c] = [status |-> "approved", by |-> At(j)]]
      /\ issuance' = [issuance EXCEPT ![c] = IF issuance[c] = "open" THEN "completed" ELSE issuance[c]]
      /\ job' = [job EXCEPT ![j] = Advanced(job[j])]
      /\ UNCHANGED <<status, issuer, crl, keys, ageVars, trustVars, failures>>
  BY DEF RecordCertificate, Advance
<1>2. /\ job[j].todo # <<>> /\ Head(job[j].todo).do = "record"
      /\ c \in Certificates /\ ~Issued(c) /\ issuance[c] \in {"none", "open"} /\ At(j) \in Authorities
  BY <1>1, CertifyingIs DEF Certifying
<1>3. StateOK BY ControlInvIs
<1>4. /\ certificate' \in [Certificates -> [status : {"none", "approved", "revoked"}, by : Authorities \cup {Nobody}]]
      /\ certificate'[c].status = "approved" /\ certificate'[c].by \in Authorities
      /\ \A d \in Certificates \ {c} : certificate'[d] = certificate[d]
      /\ issuance' \in [Certificates -> {"none", "open", "completed", "failed"}]
      /\ issuance'[c] # "failed"
      /\ \A d \in Certificates \ {c} : issuance'[d] = issuance[d]
  BY <1>1, <1>2, <1>3 DEF StateOK
<1>5. \A d \in Certificates \ {c} : Issued(d)' = Issued(d) /\ issuance'[d] = issuance[d]
  BY <1>4 DEF Issued
<1>6. job' = [k \in Jobs |-> job'[k]] /\ \A k \in Jobs : JobOK(k)'
  <2>1. status' = status /\ keys' = keys BY <1>1
  <2> QED BY <1>1, <1>2, <1>5, <2>1, CertifyingAdvance DEF Certifying
<1>7. StateOK' BY <1>1, <1>3, <1>4 DEF StateOK, ageVars, trustVars, LabsOK, Issued
<1> QED BY <1>6, <1>7, ControlInvNext

LEMMA RecordFailureKeeps ==
  ASSUME ControlInv, NEW j \in Jobs, RecordFailure(j), workspace' = workspace
  PROVE  ControlInv'
<1> PICK c : c = job[j].cert OBVIOUS
<1>1. /\ Pending(j, "failed") /\ issuance' = [issuance EXCEPT ![c] = "failed"]
      /\ job' = [job EXCEPT ![j] = Advanced(job[j])]
      /\ UNCHANGED <<status, issuer, crl, certificate, keys, ageVars, trustVars, failures>>
  BY DEF RecordFailure, Advance
<1>2. /\ job[j].todo # <<>> /\ Head(job[j].todo).do = "failed"
      /\ c \in Certificates /\ ~Issued(c)
  BY <1>1, CertifyingIs DEF Certifying
<1>3. StateOK BY ControlInvIs
<1>4. /\ \A d : Issued(d)' = Issued(d)
      /\ \A d \in Certificates \ {c} : issuance'[d] = issuance[d]
  BY <1>1, <1>2, <1>3 DEF Issued, StateOK
<1>5. job' = [k \in Jobs |-> job'[k]] /\ \A k \in Jobs : JobOK(k)'
  <2>1. status' = status /\ keys' = keys /\ ~Issued(c)' BY <1>1, <1>2, <1>4
  <2> QED BY <1>1, <1>2, <1>4, <2>1, CertifyingAdvance DEF Certifying
<1>6. StateOK' BY <1>1, <1>2, <1>3, <1>4 DEF StateOK, ageVars, trustVars, LabsOK, Issued
<1> QED BY <1>5, <1>6, ControlInvNext

-----------------------------------------------------------------------------
\* Steps that leave what is to be done as it is.

LEMMA AllUntouched ==
  ASSUME ControlInv, \A k \in Jobs : Untouched(k),
         UNCHANGED <<status, certificate, issuance, keys, workspace>>
  PROVE  \A k \in Jobs : JobOK(k)'
<1> SUFFICES ASSUME NEW j \in Jobs PROVE \A k \in Jobs : JobOK(k)' OBVIOUS
<1>1. JobOK(j) /\ Untouched(j) BY DEF ControlInv
<1>2. /\ Rows' = Rows /\ \A c : Issued(c)' = Issued(c)
      /\ \A w \in Workspaces : workspace[w] # "none" => workspace'[w] # "none"
  BY SameRows
<1>3. /\ \A a : Creates(j, a)' <=> Creates(j, a)
      /\ \A c : Certifies(j, c)' <=> Certifies(j, c)
      /\ \A do : Pending(j, do)' <=> Pending(j, do)
  BY <1>1 DEF Untouched, Creates, Certifies, At, Pending
<1>4. \A k \in Jobs : CreatesNew(k)'
  BY <1>1, <1>2, <1>3, CreatesKept DEF JobOK, CreatesNew
<1>5. \A k \in Jobs : CertifiesNew(k)'
  <2>1. \A c \in Certificates \cup {Nobody} : Certifies(j, c) =>
            /\ c \in Certificates /\ ~Issued(c) /\ issuance[c] \in {"none", "open"}
            /\ \A k \in Jobs \ {j} : ~Certifies(k, c)
            /\ Pending(j, "request") => issuance[c] = "none"
            /\ Pending(j, "sign") => issuance[c] = "open"
    BY <1>1 DEF JobOK, CertifiesNew
  <2> QED BY <1>2, <1>3, <2>1, CertifiesKept
<1>6. Sound(job'[j].todo, Rows', Issued(job[j].cert)')
  <2>1. CASE job[j].todo = <<>>
    <3>1. job'[j].todo = <<>> BY <1>1, <2>1 DEF Untouched
    <3> QED BY <3>1, FreeIs, PlainIsSound
  <2>2. CASE job[j].todo # <<>>
    <3>1. Issued(job[j].cert) => Issued(job[j].cert)' BY <1>1, <2>2 DEF Untouched, Issued
    <3>2. Sound(job[j].todo, Rows, Issued(job[j].cert)) /\ job'[j].todo = job[j].todo
      BY <1>1 DEF JobOK, Untouched
    <3> QED BY <1>2, <3>1, <3>2, SoundGrows
  <2> QED BY <2>1, <2>2
<1>7. Pending(j, "save")' => job'[j].seen \subseteq Certificates
  BY <1>1, <1>3 DEF JobOK, Untouched, Pending
<1>8. job'[j] \in JobRecords /\ Named(job'[j]) BY <1>1 DEF Untouched
<1>9. Rows \subseteq Rows' /\ \A c \in Certificates : Issued(c) => Issued(c)' BY <1>2
<1> QED BY <1>4, <1>5, <1>6, <1>7, <1>8, <1>9, JobsKept

LEMMA WriteBundleKeeps ==
  ASSUME ControlInv, NEW j \in Jobs, NEW file \in {"ca", "crl"}, WriteBundle(j, file),
         workspace' = workspace
  PROVE  ControlInv'
<1> DEFINE left == job[j].left \ {file}
           isLast == job[j].todo # <<>> /\ Head(job[j].todo).do = "write" /\ left = {}
           q == [job[j] EXCEPT !.left = left, !.todo = IF isLast THEN Tail(@) ELSE @]
<1>1. /\ file \in job[j].left
      /\ files' = [files EXCEPT ![file] = job[j].bundle[file]]
      /\ job' = [job EXCEPT ![j] = Settled(q)]
      /\ UNCHANGED <<rowVars, keys, ageVars, loaded, failures>>
  BY DEF WriteBundle, Written
<1>2. StateOK /\ JobOK(j) BY ControlInvIs
<1>3. job[j] \in JobRecords /\ job[j].op # "none" BY <1>1, <1>2 DEF JobOK, Named
<1>4. /\ q \in JobRecords /\ q.cert = job[j].cert /\ q.seen = job[j].seen /\ q.op = job[j].op
      /\ q.todo = IF isLast THEN Tail(job[j].todo) ELSE job[j].todo
  <2>1. isLast => Tail(job[j].todo) \in Seq(StepSet) BY <1>3, TailIs DEF JobRecords
  <2>2. left \in SUBSET {"ca", "crl"} BY <1>3 DEF JobRecords
  <2> QED BY <1>3, <2>1, <2>2 DEF JobRecords
<1>5. Named(q) BY <1>3, <1>4 DEF Named
<1> HIDE DEF q
<1>6. /\ \A k \in Jobs \ {j} : Untouched(k)
      /\ job'[j] = Settled(q) /\ job' = [k \in Jobs |-> job'[k]]
  BY <1>1, OnlyMoves
<1>7. /\ job'[j] \in JobRecords /\ Named(job'[j]) /\ job'[j].todo = q.todo
      /\ q.todo # <<>> => job'[j].cert = job[j].cert /\ job'[j].seen = job[j].seen
  BY <1>4, <1>5, <1>6, SettledIs
<1>8. \A k \in Jobs : JobOK(k)'
  <2>1. UNCHANGED <<status, certificate, issuance, keys, workspace>> BY <1>1 DEF rowVars
  <2>2. CASE ~isLast
    <3>1. Untouched(j) BY <1>4, <1>7, <2>2 DEF Untouched
    <3> QED BY <1>6, <2>1, <3>1, AllUntouched
  <2>3. CASE isLast
    <3>1. /\ Rows' = Rows /\ \A c \in Certificates : Issued(c)' = Issued(c)
          /\ \A w \in Workspaces : workspace[w] # "none" => workspace'[w] # "none"
      BY <2>1, SameRows
    <3>2. Head(job[j].todo).do \notin Creating \cup Certifying \cup {"list"}
      BY <2>3 DEF Creating, Certifying
    <3>3. job[j].todo # <<>> /\ job'[j].todo = Tail(job[j].todo) BY <1>4, <1>7, <2>3
    <3>4. job'[j].todo # <<>> => job'[j].cert = job[j].cert BY <1>7
    <3> QED BY <1>6, <1>7, <2>1, <3>1, <3>2, <3>3, <3>4, QuietTail
  <2> QED BY <2>2, <2>3
<1>9. files' \in Bundles
  <2>1. job[j].bundle \in Bundles /\ files \in Bundles BY <1>2, <1>3 DEF JobRecords, StateOK
  <2>2. CASE file = "ca" BY <1>1, <2>1, <2>2 DEF Bundles
  <2>3. CASE file = "crl" BY <1>1, <2>1, <2>3 DEF Bundles
  <2> QED BY <2>2, <2>3
<1>10. StateOK' BY <1>1, <1>2, <1>9 DEF StateOK, rowVars, ageVars, LabsOK, Issued
<1> QED BY <1>6, <1>8, <1>10, ControlInvNext

-----------------------------------------------------------------------------
\* Failures.

\* undo is what may follow the failure of job j.
Undoes(j, undo) ==
    \/ undo = <<>> \/ undo = Compensation
    \/ /\ undo = Tail(job[j].todo)
       /\ job[j].todo # <<>> /\ Head(job[j].todo).do \in {"drop", "expire", "abandon"}

LEMMA UndoIs == ASSUME NEW j PROVE Undoes(j, Undo(j))
<1>1. CASE job[j].op = "failed" /\ \E do \in {"drop", "expire", "abandon"} : Pending(j, do)
  <2>1. Undo(j) = Tail(job[j].todo) BY <1>1 DEF Undo
  <2>2. job[j].todo # <<>> /\ Head(job[j].todo).do \in {"drop", "expire", "abandon"} BY <1>1 DEF Pending
  <2> QED BY <2>1, <2>2 DEF Undoes
<1>2. CASE ~(job[j].op = "failed" /\ \E do \in {"drop", "expire", "abandon"} : Pending(j, do))
  BY <1>2 DEF Undo, Undoes
<1> QED BY <1>1, <1>2

LEMMA UndoQuiet ==
  ASSUME ControlInv, NEW j \in Jobs, NEW undo, Undoes(j, undo)
  PROVE  /\ Sound(undo, Rows, Issued(job[j].cert))
         /\ undo # <<>> => /\ Head(undo).do \notin Creating \cup Certifying \cup {"save"}
                           /\ Follows(Step("drop", At(j)), Head(undo)) \/ Pending(j, "drop")
                              \/ Pending(j, "expire") \/ Pending(j, "abandon")
<1>1. CASE undo = <<>> \/ undo = Compensation
  <2>1. Plain(undo) BY <1>1, PlainSequences
  <2> QED BY <2>1, PlainIsSound
<1>2. CASE /\ undo = Tail(job[j].todo)
           /\ job[j].todo # <<>> /\ Head(job[j].todo).do \in {"drop", "expire", "abandon"}
  <2>1. Inserts(Head(job[j].todo)) = {} /\ Rows \cup {} = Rows BY <1>2 DEF Inserts
  <2>2. /\ Sound(undo, Rows, Issued(job[j].cert))
        /\ undo # <<>> => Follows(Head(job[j].todo), Head(undo))
    BY <1>2, <2>1, NextStepIs
  <2>3. undo # <<>> => Head(undo).do \notin Creating \cup Certifying \cup {"save"}
    BY <1>2, <2>2 DEF Follows, Creating, Certifying
  <2>4. Pending(j, "drop") \/ Pending(j, "expire") \/ Pending(j, "abandon") BY <1>2 DEF Pending
  <2> QED BY <2>2, <2>3, <2>4
<1> QED BY <1>1, <1>2 DEF Undoes

\* What is left to do after a failure.
LEMMA RecoveryIs ==
  ASSUME ControlInv, NEW j \in Jobs, NEW undo, Undoes(j, undo), job[j].todo # <<>>
  PROVE  LET w == Recovery(j, undo) IN
         /\ Sound(w, Rows, Issued(job[j].cert))
         /\ w # <<>> => \/ Head(w).do \notin Creating \cup Certifying \cup {"save"}
                        \/ Pending(j, "insert") /\ Head(w) = Step("drop", At(j))
                        \/ Pending(j, "sign") /\ Head(w) = Step("failed", At(j))
<1> DEFINE w == Recovery(j, undo)
           dropped == (IF At(j) \in External THEN <<>> ELSE <<Step("drop", At(j))>>) \o undo
<1>1. \/ w = Publication
      \/ Pending(j, "insert") /\ w = dropped
      \/ Pending(j, "sign") /\ w = <<Step("failed", At(j))>>
      \/ w = undo
  BY DEF Recovery
<1>2. CASE w = Publication
  <2>1. Plain(w) BY <1>2, PlainSequences
  <2> QED BY <2>1, PlainIsSound
<1>3. CASE Pending(j, "insert") /\ w = dropped
  <2>1. /\ Sound(undo, Rows, Issued(job[j].cert))
        /\ undo # <<>> => /\ Head(undo).do \notin Creating \cup Certifying \cup {"save"}
                          /\ Follows(Step("drop", At(j)), Head(undo))
    BY <1>3, UndoQuiet DEF Pending
  <2>2. undo \in Seq(StepSet) BY <2>1 DEF Sound
  <2>3. CASE At(j) \in External
    <3>1. w = undo BY <1>3, <2>2, <2>3, ConcatEmptySeq
    <3> QED BY <2>1, <3>1
  <2>4. CASE At(j) \notin External
    <3>1. At(j) \in Authorities BY <1>3, NextStepIs DEF Pending, At, Creating
    <3>2. /\ Step("drop", At(j)) \in StepSet /\ Step("drop", At(j)).do = "drop"
          /\ Step("drop", At(j)).at = At(j)
      BY <3>1, NobodyIs, StepIs DEF Deeds, Creating
    <3>3. w = Front(Step("drop", At(j)), undo) BY <1>3, <2>2, <2>4, <3>2, Single
    <3>4. Rows \cup Inserts(Step("drop", At(j))) = Rows BY <3>2 DEF Inserts
    <3>5. Issued(job[j].cert) \in BOOLEAN BY DEF Issued
    <3>6. /\ Step("drop", At(j)).do \notin Settling /\ Step("drop", At(j)).do # "unapprove"
          /\ undo # <<>> => Follows(Step("drop", At(j)), Head(undo))
          /\ Sound(undo, Rows \cup Inserts(Step("drop", At(j))), Issued(job[j].cert))
      BY <2>1, <3>2, <3>4 DEF Settling
    <3> DEFINE x == Step("drop", At(j))
    <3>7. x \in StepSet /\ x.at \in Authorities BY <3>1, <3>2
    <3> HIDE DEF x
    <3>8. Sound(Front(x, undo), Rows, Issued(job[j].cert)) /\ Head(Front(x, undo)) = x
      <4>1. /\ x.do \notin Settling /\ x.do # "unapprove"
            /\ undo # <<>> => Follows(x, Head(undo))
            /\ Sound(undo, Rows \cup Inserts(x), Issued(job[j].cert))
        BY <3>6 DEF x
      <4> QED BY <3>5, <3>7, <4>1, SoundFront
    <3>9. Sound(w, Rows, Issued(job[j].cert)) /\ Head(w) = Step("drop", At(j))
      BY <3>3, <3>8 DEF x
    <3> QED BY <1>3, <3>9
  <2> QED BY <2>3, <2>4
<1>4. CASE Pending(j, "sign") /\ w = <<Step("failed", At(j))>>
  <2>1. At(j) \in Authorities BY <1>4, NextStepIs DEF Pending, At, Certifying
  <2>2. /\ Step("failed", At(j)) \in StepSet /\ Step("failed", At(j)).do = "failed"
        /\ Step("failed", At(j)).at = At(j)
    BY <2>1, NobodyIs, StepIs DEF Deeds, Certifying
  <2>3. w = Front(Step("failed", At(j)), <<>>) BY <1>4, <2>2, EmptySeq, Single
  <2>4. Issued(job[j].cert) \in BOOLEAN BY DEF Issued
  <2>5. Sound(<<>>, Rows \cup Inserts(Step("failed", At(j))), Issued(job[j].cert)) BY FreeIs, PlainIsSound
  <2> DEFINE x == Step("failed", At(j))
  <2>6. /\ x \in StepSet /\ x.at \in Authorities /\ x.do \notin Settling /\ x.do # "unapprove"
        /\ Sound(<<>>, Rows \cup Inserts(x), Issued(job[j].cert))
    BY <2>1, <2>2, <2>5 DEF Settling
  <2>7. w = Front(x, <<>>) BY <2>3
  <2> HIDE DEF x
  <2>8. Sound(Front(x, <<>>), Rows, Issued(job[j].cert)) /\ Head(Front(x, <<>>)) = x
    BY <2>4, <2>6, SoundFront
  <2>9. Sound(w, Rows, Issued(job[j].cert)) /\ Head(w) = Step("failed", At(j))
    BY <2>7, <2>8 DEF x
  <2> QED BY <1>4, <2>9
<1>5. CASE w = undo BY <1>5, UndoQuiet
<1> QED BY <1>1, <1>2, <1>3, <1>4, <1>5

LEMMA FailureKeeps ==
  ASSUME ControlInv, NEW j \in Jobs, NEW undo, Undoes(j, undo), job[j].todo # <<>>,
         NEW r \in JobRecords, job' = [job EXCEPT ![j] = r],
         r.todo = Recovery(j, undo), r.op = Outcome(j), r.seen = {}, r.cert = job[j].cert,
         UNCHANGED <<status, certificate, issuance, keys, workspace>>
  PROVE  job' = [k \in Jobs |-> job'[k]] /\ \A k \in Jobs : JobOK(k)'
<1>1. /\ \A k \in Jobs \ {j} : Untouched(k)
      /\ job'[j] = r /\ job' = [k \in Jobs |-> job'[k]]
  BY OnlyMoves
<1>2. /\ Rows' = Rows /\ \A c : Issued(c)' = Issued(c)
      /\ \A w \in Workspaces : workspace[w] # "none" => workspace'[w] # "none"
  BY SameRows
<1>3. /\ Sound(r.todo, Rows, Issued(job[j].cert))
      /\ r.todo # <<>> => \/ Head(r.todo).do \notin Creating \cup Certifying \cup {"save"}
                          \/ Pending(j, "insert") /\ Head(r.todo) = Step("drop", At(j))
                          \/ Pending(j, "sign") /\ Head(r.todo) = Step("failed", At(j))
  BY RecoveryIs
<1>4. Named(r) BY DEF Named, Outcome
<1>5. JobOK(j) BY DEF ControlInv
<1>6. \A k \in Jobs : CreatesNew(k)'
  <2>1. \A a \in Authorities : Creates(j, a)' =>
           /\ Pending(j, "insert") /\ a = At(j) /\ ~Pending(j, "put")' /\ ~Pending(j, "insert")'
    BY <1>1, <1>3 DEF Creates, Creating, Certifying, At, Pending, Step
  <2>2. \A a \in Authorities : Pending(j, "insert") /\ a = At(j) => Creates(j, a)
    BY DEF Creates, Creating, Pending
  <2> QED BY <1>1, <1>2, <1>5, <2>1, <2>2, CreatesKept DEF JobOK, CreatesNew
<1>7. \A k \in Jobs : CertifiesNew(k)'
  <2>1. \A c \in Certificates \cup {Nobody} : Certifies(j, c)' =>
           /\ Pending(j, "sign") /\ c = job[j].cert /\ ~Pending(j, "request")' /\ ~Pending(j, "sign")'
    BY <1>1, <1>3 DEF Certifies, Creating, Certifying, Pending, Step
  <2>2. \A c : Pending(j, "sign") /\ c = job[j].cert => Certifies(j, c)
    BY DEF Certifies, Certifying, Pending
  <2>3. \A c \in Certificates \cup {Nobody} : Certifies(j, c) =>
            c \in Certificates /\ ~Issued(c) /\ issuance[c] \in {"none", "open"}
    BY <1>5 DEF JobOK, CertifiesNew
  <2> QED BY <1>1, <1>2, <2>1, <2>2, <2>3, CertifiesKept
<1>8. Pending(j, "save")' => job'[j].seen \subseteq Certificates BY <1>1
<1>9. Sound(job'[j].todo, Rows', Issued(job[j].cert)')
  <2>1. Issued(job[j].cert) => Issued(job[j].cert)' BY <1>1 DEF Issued
  <2> QED BY <1>1, <1>2, <1>3, <2>1, SoundGrows
<1>10. Rows \subseteq Rows' /\ \A c \in Certificates : Issued(c) => Issued(c)' BY <1>2
<1> QED BY <1>1, <1>4, <1>6, <1>7, <1>8, <1>9, <1>10, JobsKept

\* The record of a job that failed.
LEMMA FailedIs ==
  ASSUME ControlInv, NEW j \in Jobs, NEW undo, Undoes(j, undo), job[j].todo # <<>>
  PROVE  job[j] \in JobRecords /\ Recovery(j, undo) \in Seq(StepSet) /\ Outcome(j) \in Operations
<1>1. Recovery(j, undo) \in Seq(StepSet) BY RecoveryIs DEF Sound
<1>2. Outcome(j) \in Operations BY DEF Outcome, Operations
<1> QED BY <1>1, <1>2, NextStepIs

LEMMA FailStepKeeps ==
  ASSUME ControlInv, NEW j \in Jobs, NEW undo, Undoes(j, undo), FailStep(j, undo),
         workspace' = workspace
  PROVE  ControlInv'
<1>1. PICK lost \in SUBSET job[j].left :
         /\ job[j].todo # <<>> /\ failures < MaxFailures /\ failures' = failures + 1
         /\ job' = [job EXCEPT ![j].todo = Recovery(j, undo), ![j].op = Outcome(j),
                               ![j].left = @ \ lost, ![j].seen = {}]
         /\ UNCHANGED <<rowVars, keys, ageVars, trustVars>>
  BY Zenon DEF FailStep
<1> DEFINE r == [job[j] EXCEPT !.todo = Recovery(j, undo), !.op = Outcome(j),
                               !.left = @ \ lost, !.seen = {}]
<1>2. job' = [job EXCEPT ![j] = r] BY <1>1
<1>3. /\ r \in JobRecords /\ r.todo = Recovery(j, undo) /\ r.op = Outcome(j)
      /\ r.seen = {} /\ r.cert = job[j].cert
  <2>1. job[j] \in JobRecords /\ Recovery(j, undo) \in Seq(StepSet) /\ Outcome(j) \in Operations
    BY <1>1, FailedIs
  <2>2. job[j].left \ lost \in SUBSET {"ca", "crl"} BY <2>1 DEF JobRecords
  <2> QED BY <2>1, <2>2 DEF JobRecords
<1> HIDE DEF r
<1>4. job' = [k \in Jobs |-> job'[k]] /\ \A k \in Jobs : JobOK(k)'
  <2>1. UNCHANGED <<status, certificate, issuance, keys, workspace>> BY <1>1 DEF rowVars
  <2> QED BY <1>1, <1>2, <1>3, <2>1, FailureKeeps
<1>5. StateOK'
  <2>1. StateOK BY ControlInvIs
  <2>2. failures' \in 0 .. MaxFailures BY <1>1, <2>1, PkiAssumption DEF StateOK
  <2> QED BY <1>1, <2>1, <2>2 DEF StateOK, rowVars, ageVars, trustVars, LabsOK, Issued
<1> QED BY <1>4, <1>5, ControlInvNext

LEMMA RefuseStepKeeps ==
  ASSUME ControlInv, NEW j \in Jobs, NEW undo, Undoes(j, undo), RefuseStep(j, undo),
         workspace' = workspace
  PROVE  ControlInv'
<1>1. /\ job[j].todo # <<>>
      /\ job' = [job EXCEPT ![j].todo = Recovery(j, undo), ![j].op = Outcome(j), ![j].seen = {}]
      /\ UNCHANGED <<rowVars, keys, ageVars, trustVars, failures>>
  BY DEF RefuseStep, Pending
<1> DEFINE r == [job[j] EXCEPT !.todo = Recovery(j, undo), !.op = Outcome(j), !.seen = {}]
<1>2. job' = [job EXCEPT ![j] = r] BY <1>1
<1>3. /\ r \in JobRecords /\ r.todo = Recovery(j, undo) /\ r.op = Outcome(j)
      /\ r.seen = {} /\ r.cert = job[j].cert
  <2>1. job[j] \in JobRecords /\ Recovery(j, undo) \in Seq(StepSet) /\ Outcome(j) \in Operations
    BY <1>1, FailedIs
  <2> QED BY <2>1 DEF JobRecords
<1> HIDE DEF r
<1>4. job' = [k \in Jobs |-> job'[k]] /\ \A k \in Jobs : JobOK(k)'
  <2>1. UNCHANGED <<status, certificate, issuance, keys, workspace>> BY <1>1 DEF rowVars
  <2> QED BY <1>1, <1>2, <1>3, <2>1, FailureKeeps
<1>5. StateOK'
  <2>1. StateOK BY ControlInvIs
  <2> QED BY <1>1, <2>1 DEF StateOK, rowVars, ageVars, trustVars, LabsOK, Issued
<1> QED BY <1>4, <1>5, ControlInvNext

\* Jobs that have nothing to do but plain steps are sound.
LEMMA AllPlain ==
  ASSUME \A k \in Jobs : job'[k] \in JobRecords /\ Named(job'[k]) /\ Plain(job'[k].todo)
  PROVE  \A k \in Jobs : JobOK(k)'
<1> SUFFICES ASSUME NEW k \in Jobs PROVE JobOK(k)' OBVIOUS
<1>1. /\ Sound(job'[k].todo, Rows', Issued(job[k].cert)')
      /\ job'[k].todo # <<>> => Head(job'[k].todo).do \notin Creating \cup Certifying \cup {"save"}
  BY PlainIsSound
<1>2. \A x : ~Creates(k, x)' /\ ~Certifies(k, x)' BY <1>1 DEF Creates, Certifies
<1>3. CreatesNew(k)' /\ CertifiesNew(k)' BY <1>2 DEF CreatesNew, CertifiesNew
<1>4. ~Pending(k, "save")' BY <1>1 DEF Pending
<1> QED BY <1>1, <1>3, <1>4 DEF JobOK

LEMMA RestartKeeps ==
  ASSUME ControlInv, NEW j \in Jobs, Restart(j), workspace' = workspace
  PROVE  ControlInv'
<1> DEFINE boot == [Free EXCEPT !.op = "boot", !.todo = Publication]
<1>1. /\ failures < MaxFailures /\ failures' = failures + 1
      /\ job' = [k \in Jobs |-> IF k = j THEN boot ELSE Free]
      /\ UNCHANGED <<rowVars, keys, ageVars, trustVars>>
  BY DEF Restart
<1>2. /\ boot \in JobRecords /\ Named(boot) /\ Plain(boot.todo)
      /\ Free \in JobRecords /\ Named(Free) /\ Plain(Free.todo)
  <2>1. Plain(Publication) BY PlainSequences
  <2>2. /\ Free \in JobRecords /\ Free.todo = <<>> /\ Free.left = {} /\ Plain(<<>>) BY FreeIs
  <2>3. "boot" \in Operations /\ Publication \in Seq(StepSet) BY <2>1 DEF Operations, Plain
  <2>4. boot \in JobRecords /\ boot.todo = Publication /\ boot.op = "boot" BY <2>2, <2>3 DEF JobRecords
  <2> QED BY <2>1, <2>2, <2>4 DEF Named
<1> HIDE DEF boot
<1>3. \A k \in Jobs : job'[k] = boot \/ job'[k] = Free BY <1>1
<1>4. \A k \in Jobs : JobOK(k)' BY <1>2, <1>3, AllPlain
<1>5. StateOK'
  <2>1. StateOK BY ControlInvIs
  <2>2. failures' \in 0 .. MaxFailures BY <1>1, <2>1, PkiAssumption DEF StateOK
  <2> QED BY <1>1, <2>1, <2>2 DEF StateOK, rowVars, ageVars, trustVars, LabsOK, Issued
<1>6. job' = [k \in Jobs |-> job'[k]] BY <1>1
<1> QED BY <1>4, <1>5, <1>6, ControlInvNext

\* What grows old, and what a workspace has lived.
LEMMA AgesKeep ==
  ASSUME ControlInv, UNCHANGED <<rowVars, keys, trustVars, job, failures, workspace>>,
         lapsed' \subseteq Authorities, overdue' \subseteq Authorities
  PROVE  ControlInv'
<1>1. StateOK /\ (\A k \in Jobs : JobOK(k)) /\ job = [k \in Jobs |-> job[k]] BY ControlInvIs
<1>2. \A k \in Jobs : Untouched(k) BY <1>1 DEF Untouched, JobOK
<1>3. \A k \in Jobs : JobOK(k)'
  <2>1. UNCHANGED <<status, certificate, issuance, keys, workspace>> BY DEF rowVars
  <2> QED BY <1>2, <2>1, AllUntouched
<1>4. StateOK' BY <1>1 DEF StateOK, rowVars, trustVars, LabsOK, Issued
<1> QED BY <1>1, <1>3, <1>4, ControlInvNext

LEMMA AgingKeeps ==
  ASSUME ControlInv, Aging, workspace' = workspace
  PROVE  ControlInv'
<1>1. lapsed \subseteq Authorities /\ overdue \subseteq Authorities BY ControlInvIs DEF StateOK
<1>2. PICK a \in Authorities : AuthorityLapses(a) \/ CrlLapses(a) BY DEF Aging
<1>3. /\ UNCHANGED <<rowVars, keys, trustVars, job, failures>>
      /\ lapsed' \subseteq Authorities /\ overdue' \subseteq Authorities
  BY <1>1, <1>2 DEF AuthorityLapses, CrlLapses
<1> QED BY <1>3, AgesKeep

LEMMA TimePassesKeeps ==
  ASSUME ControlInv, NEW w \in Workspaces, TimePasses(w)
  PROVE  ControlInv'
<1>1. lapsed \subseteq Authorities /\ overdue \subseteq Authorities BY ControlInvIs DEF StateOK
<1>2. UNCHANGED <<rowVars, keys, ageVars, trustVars, job, failures, workspace>>
  BY DEF TimePasses, pkiVars
<1> QED BY <1>1, <1>2, AgesKeep DEF ageVars

-----------------------------------------------------------------------------
\* What the operations consist of is sound.


LEMMA FollowsAny ==
  ASSUME NEW p, NEW q, q.do \notin Creating \cup Certifying \cup {"save"}
  PROVE  Follows(p, q)
BY DEF Follows, Creating, Certifying

LEMMA SoundQuietFront ==
  ASSUME NEW x \in StepSet, NEW s, NEW R, NEW issued \in BOOLEAN, Sound(s, R, issued),
         s # <<>> => Follows(x, Head(s)),
         x.do \notin Creating \cup Settling \cup Certifying \cup {"unapprove"}
  PROVE  Sound(Front(x, s), R, issued) /\ Front(x, s) # <<>> /\ Head(Front(x, s)) = x
<1>1. Inserts(x) = {} /\ R \cup {} = R BY DEF Inserts, Creating
<1>2. Sound(s, R \cup Inserts(x), issued) BY <1>1
<1>3. x.do \notin Creating \cup Settling \cup Certifying /\ x.do \notin Settling /\ x.do # "unapprove"
  OBVIOUS
<1> QED BY <1>2, <1>3, SoundFront

LEMMA PublishedFirst ==
  ASSUME NEW s, NEW R, NEW issued \in BOOLEAN, Sound(s, R, issued),
         s # <<>> => Head(s).do \notin Creating \cup Certifying \cup {"save"}
  PROVE  /\ Sound(Publication \o s, R, issued)
         /\ Publication \o s # <<>> /\ Head(Publication \o s) = Step("read", Nobody)
<1> DEFINE x == Step("read", Nobody)
           y == Step("write", Nobody)
           z == Step("trigger", Nobody)
<1>1. /\ x \in StepSet /\ x.do = "read" /\ y \in StepSet /\ y.do = "write"
      /\ z \in StepSet /\ z.do = "trigger"
  BY StepOfNobody DEF Deeds
<1>2. {"read", "write", "trigger"} \cap (Creating \cup Settling \cup Certifying \cup {"save", "unapprove"}) = {}
  BY DEF Creating, Settling, Certifying
<1>3. Publication = Front(x, Front(y, <<z>>)) /\ <<z>> \in Seq(StepSet)
  <2>1. <<y, z>> = Front(y, <<z>>) BY <1>1, EmptySeq, Pair
  <2>2. <<x, y, z>> = Front(x, <<y, z>>) BY <1>1, Triple
  <2> QED BY <1>1, <2>1, <2>2 DEF Publication
<1> HIDE DEF x, y, z
<1>4. Publication \o s = Front(x, Front(y, Front(z, s)))
  <2>1. s \in Seq(StepSet) BY DEF Sound
  <2>2. <<x>> \in Seq(StepSet) /\ <<y>> \in Seq(StepSet) BY <1>1
  <2>3. <<y>> \o <<z>> \in Seq(StepSet) BY <1>3, <2>2, ConcatProperties
  <2>4. (<<x>> \o (<<y>> \o <<z>>)) \o s = <<x>> \o ((<<y>> \o <<z>>) \o s)
    BY <2>1, <2>2, <2>3, ConcatAssociative
  <2>5. (<<y>> \o <<z>>) \o s = <<y>> \o (<<z>> \o s) BY <1>3, <2>1, <2>2, ConcatAssociative
  <2> QED BY <1>3, <2>4, <2>5 DEF Front
<1>5. Sound(Front(z, s), R, issued) /\ Front(z, s) # <<>> /\ Head(Front(z, s)) = z
  <2>1. s # <<>> => Follows(z, Head(s)) BY FollowsAny
  <2> QED BY <1>1, <1>2, <2>1, SoundQuietFront
<1>6. Sound(Front(y, Front(z, s)), R, issued) /\ Head(Front(y, Front(z, s))) = y
  BY <1>1, <1>2, <1>5, FollowsAny, SoundQuietFront
<1>7. /\ Sound(Front(x, Front(y, Front(z, s))), R, issued)
      /\ Front(x, Front(y, Front(z, s))) # <<>>
      /\ Head(Front(x, Front(y, Front(z, s)))) = x
  BY <1>1, <1>2, <1>6, FollowsAny, SoundQuietFront
<1> QED BY <1>4, <1>7 DEF x

LEMMA SetToIs ==
  ASSUME NEW a \in Authorities, NEW to \in Settling, NEW s, NEW R, NEW issued \in BOOLEAN,
         Sound(s, R, issued), a \in R,
         s # <<>> => Head(s).do \notin Creating \cup Certifying \cup {"save"}
  PROVE  /\ Sound(SetTo(a, to) \o s, R, issued)
         /\ SetTo(a, to) \o s # <<>>
         /\ Head(SetTo(a, to) \o s).do \in {"clear"} \cup Settling
<1>1. /\ Step(to, a) \in StepSet /\ Step(to, a).do = to /\ Step(to, a).at = a
      /\ Step("clear", a) \in StepSet /\ Step("clear", a).do = "clear" /\ Step("clear", a).at = a
  BY NobodyIs, StepIs DEF Deeds
<1>2. Settling \cap (Creating \cup Certifying \cup {"save", "unapprove"}) = {}
  BY DEF Creating, Settling, Certifying
<1> DEFINE p == Publication \o s
           x == Step(to, a)
           y == Step("clear", a)
<1>3. Sound(p, R, issued) /\ p # <<>> /\ Head(p) = Step("read", Nobody) BY PublishedFirst
<1>4. Follows(x, Head(p)) BY <1>3 DEF Follows, Step
<1>5. s \in Seq(StepSet) /\ Publication \in Seq(StepSet) BY PlainSequences DEF Sound, Plain
<1> HIDE DEF p, x, y
<1>6. x \in StepSet /\ x.do = to /\ x.at = a /\ y \in StepSet /\ y.do = "clear" BY <1>1 DEF x, y
<1>7. Sound(Front(x, p), R, issued) /\ Front(x, p) # <<>> /\ Head(Front(x, p)) = x
  <2>1. Inserts(x) = {} /\ R \cup {} = R BY <1>2, <1>6 DEF Inserts, Creating
  <2> QED BY <1>2, <1>3, <1>4, <1>6, <2>1, SoundFront
<1>8. CASE to = "active"
  <2>1. <<y, x>> \o Publication \in Seq(StepSet) /\ <<y>> \in Seq(StepSet) /\ <<x>> \in Seq(StepSet)
        /\ <<y, x>> \in Seq(StepSet)
    BY <1>5, <1>6, ConcatProperties
  <2>2. (<<y, x>> \o Publication) \o s = <<y, x>> \o p BY <1>5, <2>1, ConcatAssociative DEF p
  <2>3. p \in Seq(StepSet) BY <1>3 DEF Sound
  <2>4. <<y, x>> \o p = Front(y, Front(x, p)) BY <1>6, <2>3, Pair
  <2>5. SetTo(a, to) \o s = Front(y, Front(x, p)) BY <1>8, <2>2, <2>4 DEF SetTo, x, y
  <2>6. Follows(y, x) BY <1>2, <1>6, FollowsAny
  <2>7. y.do \notin Creating \cup Settling \cup Certifying \cup {"unapprove"}
    BY <1>6 DEF Creating, Settling, Certifying
  <2>8. /\ Sound(Front(y, Front(x, p)), R, issued) /\ Front(y, Front(x, p)) # <<>>
        /\ Head(Front(y, Front(x, p))) = y
    BY <1>6, <1>7, <2>6, <2>7, SoundQuietFront
  <2> QED BY <1>6, <2>5, <2>8
<1>9. CASE to # "active"
  <2>1. <<x>> \in Seq(StepSet) BY <1>6
  <2>2. (<<x>> \o Publication) \o s = <<x>> \o p BY <1>5, <2>1, ConcatAssociative DEF p
  <2>3. SetTo(a, to) \o s = Front(x, p) BY <1>9, <2>2 DEF SetTo, x, Front
  <2> QED BY <1>6, <1>7, <2>3
<1> QED BY <1>8, <1>9

LEMMA SetToAlone ==
  ASSUME NEW a \in Authorities, NEW to \in Settling, NEW R, NEW issued \in BOOLEAN, a \in R
  PROVE  /\ Sound(SetTo(a, to), R, issued) /\ SetTo(a, to) # <<>>
         /\ Head(SetTo(a, to)).do \in {"clear"} \cup Settling
<1>1. Sound(<<>>, R, issued) BY FreeIs, PlainIsSound
<1>2. /\ Step(to, a) \in StepSet /\ Step("clear", a) \in StepSet /\ Publication \in Seq(StepSet)
  BY NobodyIs, StepIs, PlainSequences DEF Deeds, Plain
<1>3. SetTo(a, to) \in Seq(StepSet)
  <2>1. <<Step("clear", a), Step("active", a)>> \in Seq(StepSet) \/ to # "active" BY <1>2
  <2>2. <<Step(to, a)>> \in Seq(StepSet) BY <1>2
  <2> QED BY <1>2, <2>1, <2>2, ConcatProperties DEF SetTo
<1>4. SetTo(a, to) \o <<>> = SetTo(a, to) BY <1>3, ConcatEmptySeq
<1> QED BY <1>1, <1>4, SetToIs

\* A key and its row.
LEMMA CreatedFirst ==
  ASSUME NEW a \in Authorities, NEW s, NEW R, NEW issued \in BOOLEAN,
         Sound(s, R \cup {a}, issued),
         s # <<>> => Head(s).do \notin Creating \cup Certifying \cup {"save"}
  PROVE  /\ Sound(Created(a) \o s, R, issued)
         /\ Created(a) \o s # <<>> /\ Head(Created(a) \o s) = Step("put", a)
<1> DEFINE x == Step("put", a)
           y == Step("insert", a)
<1>1. /\ x \in StepSet /\ x.do = "put" /\ x.at = a
      /\ y \in StepSet /\ y.do = "insert" /\ y.at = a
  BY NobodyIs, StepIs DEF Deeds, Creating
<1>2. Created(a) = <<x, y>> BY DEF Created
<1> HIDE DEF x, y
<1>3. Created(a) \o s = Front(x, Front(y, s))
  <2>1. s \in Seq(StepSet) BY DEF Sound
  <2>2. x \in StepSet /\ y \in StepSet BY <1>1
  <2>3. <<x, y>> \o s = Front(x, Front(y, s)) BY <2>1, <2>2, Pair
  <2> QED BY <1>2, <2>3
<1>4. Inserts(x) = {} /\ Inserts(y) = {a} /\ R \cup {} = R BY <1>1 DEF Inserts
<1>5. {"put", "insert"} \cap (Settling \cup {"unapprove"}) = {} BY DEF Settling
<1>6. Sound(Front(y, s), R, issued) /\ Front(y, s) # <<>> /\ Head(Front(y, s)) = y
  <2>1. s # <<>> => Follows(y, Head(s)) BY FollowsAny
  <2>2. Sound(s, R \cup Inserts(y), issued) BY <1>4
  <2>3. y.do \notin Settling /\ y.do # "unapprove" BY <1>1, <1>5
  <2> QED BY <1>1, <2>1, <2>2, <2>3, SoundFront
<1>7. Follows(x, y) BY <1>1 DEF Follows
<1>8. /\ Sound(Front(x, Front(y, s)), R, issued) /\ Front(x, Front(y, s)) # <<>>
      /\ Head(Front(x, Front(y, s))) = x
  BY <1>1, <1>4, <1>5, <1>6, <1>7, SoundFront
<1> QED BY <1>3, <1>8 DEF x

-----------------------------------------------------------------------------
\* The requests.

LEMMA StartIs ==
  ASSUME ControlInv, NEW j \in Jobs, NEW op \in Operations \ {"none"}, NEW todo \in Seq(StepSet),
         NEW about \in Places, NEW cert \in Certificates \cup {Nobody},
         Start(j, op, todo, about, cert)
  PROVE  /\ \A k \in Jobs \ {j} : Untouched(k)
         /\ job'[j] \in JobRecords /\ Named(job'[j])
         /\ job'[j].todo = todo /\ job'[j].cert = cert /\ job'[j].seen = {}
         /\ job' = [k \in Jobs |-> job'[k]]
         /\ UNCHANGED <<rowVars, keys, ageVars, trustVars, failures>>
<1> DEFINE alone == \A i \in Jobs \ {j} : IsFree(i)
           r == [Free EXCEPT !.op = op, !.todo = todo, !.about = about, !.cert = cert, !.clean = alone]
<1>1. /\ job' = [k \in Jobs |-> IF k = j THEN r ELSE IF IsFree(k) THEN Free
                               ELSE [job[k] EXCEPT !.clean = FALSE]]
      /\ UNCHANGED <<rowVars, keys, ageVars, trustVars, failures>>
  BY DEF Start
<1>2. alone \in BOOLEAN OBVIOUS
<1> HIDE DEF alone
<1>3. /\ r \in JobRecords /\ r.todo = todo /\ r.cert = cert /\ r.op = op /\ r.seen = {}
  BY <1>2, FreeIs DEF JobRecords, Free
<1> HIDE DEF r
<1>4. job'[j] = r /\ job' = [k \in Jobs |-> job'[k]] BY <1>1
<1>5. ASSUME NEW k \in Jobs \ {j} PROVE Untouched(k)
  <2>1. job[k] \in JobRecords /\ Named(job[k]) BY DEF ControlInv, JobOK
  <2>2. CASE IsFree(k)
    <3>1. job'[k] = Free /\ job[k].todo = <<>> BY <1>1, <2>2 DEF IsFree
    <3> QED BY <3>1, FreeIs DEF Untouched, Named
  <2>3. CASE ~IsFree(k)
    <3>1. job'[k] = [job[k] EXCEPT !.clean = FALSE] BY <1>1, <2>3
    <3> QED BY <2>1, <3>1 DEF Untouched, Named, JobRecords
  <2> QED BY <2>2, <2>3
<1> QED BY <1>1, <1>3, <1>4, <1>5 DEF Named

\* A request keeps the invariant if what it begins is sound, and new where it
\* creates or certifies.
LEMMA StartKeeps ==
  ASSUME ControlInv, NEW j \in Jobs, NEW op \in Operations \ {"none"}, NEW todo,
         NEW about \in Places, NEW cert \in Certificates \cup {Nobody},
         Start(j, op, todo, about, cert), workspace' = workspace,
         Sound(todo, Rows, Issued(cert)),
         todo # <<>> /\ Head(todo).do \in Creating =>
            /\ status[Head(todo).at] = "none"
            /\ \A k \in Jobs : ~Creates(k, Head(todo).at)
            /\ \A w \in Workspaces : CaOf[w] # Head(todo).at
            /\ Head(todo).do = "put" => Head(todo).at \notin External
            /\ Head(todo).do = "insert" => Head(todo).at \in External,
         todo # <<>> /\ Head(todo).do \in Certifying =>
            /\ cert \in Certificates /\ ~Issued(cert) /\ issuance[cert] = "none"
            /\ \A k \in Jobs : ~Certifies(k, cert)
            /\ Head(todo).do # "sign"
  PROVE  ControlInv'
<1>1. /\ \A k \in Jobs \ {j} : Untouched(k)
      /\ job'[j] \in JobRecords /\ Named(job'[j])
      /\ job'[j].todo = todo /\ job'[j].cert = cert /\ job'[j].seen = {}
      /\ job' = [k \in Jobs |-> job'[k]]
      /\ UNCHANGED <<rowVars, keys, ageVars, trustVars, failures>>
  BY StartIs DEF Sound
<1>2. UNCHANGED <<status, certificate, issuance, workspace>> BY <1>1 DEF rowVars
<1>3. /\ Rows' = Rows /\ \A c : Issued(c)' = Issued(c)
      /\ \A w \in Workspaces : workspace[w] # "none" => workspace'[w] # "none"
  BY <1>2, SameRows
<1>4. \A k \in Jobs : CreatesNew(k)'
  <2>1. \A a \in Authorities : Creates(j, a)' =>
           /\ \A k \in Jobs \ {j} : ~Creates(k, a)
           /\ status'[a] = "none"
           /\ \A w \in Workspaces : CaOf[w] = a => workspace'[w] # "none"
           /\ Pending(j, "put")' => a \notin External
           /\ Pending(j, "insert")' => a \in keys' \cup External
    BY <1>1, <1>2 DEF Creates, At, Pending
  <2>2. keys' = keys BY <1>1
  <2> QED BY <1>1, <1>3, <2>1, <2>2, CreatesKept
<1>5. \A k \in Jobs : CertifiesNew(k)'
  <2>1. \A c \in Certificates \cup {Nobody} : Certifies(j, c)' =>
           /\ \A k \in Jobs \ {j} : ~Certifies(k, c)
           /\ c \in Certificates /\ ~Issued(c)' /\ issuance'[c] = "none"
           /\ ~Pending(j, "sign")'
    BY <1>1, <1>2, <1>3 DEF Certifies, Pending
  <2> QED BY <1>1, <1>2, <1>3, <2>1, CertifiesKept
<1>6. Sound(job'[j].todo, Rows', Issued(job[j].cert)')
  <2>1. Issued(job[j].cert)' = Issued(cert) BY <1>1, <1>2 DEF Issued
  <2> QED BY <1>1, <1>3, <2>1
<1>7. Pending(j, "save")' => job'[j].seen \subseteq Certificates BY <1>1
<1>8. \A k \in Jobs : JobOK(k)'
  <2>1. Rows \subseteq Rows' /\ \A c \in Certificates : Issued(c) => Issued(c)' BY <1>3
  <2> QED BY <1>1, <1>4, <1>5, <1>6, <1>7, <2>1, JobsKept
<1>9. StateOK'
  <2>1. StateOK BY ControlInvIs
  <2> QED BY <1>1, <1>2, <2>1 DEF StateOK, rowVars, ageVars, trustVars, LabsOK, Issued
<1> QED BY <1>1, <1>8, <1>9, ControlInvNext

\* An operation of steps that ask for nothing.
LEMMA StartPlainKeeps ==
  ASSUME ControlInv, NEW j \in Jobs, NEW op \in Operations \ {"none"}, NEW todo, Plain(todo),
         Start(j, op, todo, Nobody, Nobody), workspace' = workspace
  PROVE  ControlInv'
<1>1. /\ Sound(todo, Rows, Issued(Nobody))
      /\ todo # <<>> => Head(todo).do \notin Creating \cup Certifying
  BY PlainIsSound
<1>2. Nobody \in Places /\ Nobody \in Certificates \cup {Nobody} BY NobodyIs
<1> QED BY <1>1, <1>2, StartKeeps

\* An authority that nobody has used is not being created.
LEMMA UnusedIs ==
  ASSUME ControlInv, NEW a, Unused(a)
  PROVE  status[a] = "none" /\ \A k \in Jobs : ~Creates(k, a)
<1>1. status[a] = "none" /\ \A k \in Jobs : \A i \in DOMAIN job[k].todo : job[k].todo[i].at # a
  BY DEF Unused
<1>2. ASSUME NEW k \in Jobs, Creates(k, a) PROVE FALSE
  <2>1. job[k].todo # <<>> /\ At(k) = a /\ job[k].todo \in Seq(StepSet)
    BY <1>2 DEF Creates, ControlInv, JobOK, Sound
  <2>2. Head(job[k].todo) = job[k].todo[1] /\ 1 \in DOMAIN job[k].todo
    BY <2>1, TailIs, LenProperties
  <2> QED BY <1>1, <2>1, <2>2 DEF At
<1> QED BY <1>1, <1>2

LEMMA NewIs ==
  ASSUME ControlInv, NEW c \in Certificates, New(c)
  PROVE  ~Issued(c) /\ issuance[c] = "none" /\ \A k \in Jobs : ~Certifies(k, c)
BY DEF New, Issued, Certifies

LEMMA PlatformIs ==
  ASSUME NEW a \in OfPlatform
  PROVE  a \in Authorities /\ a \in Places /\ \A w \in Workspaces : CaOf[w] # a
BY NobodyIs DEF OfPlatform

LEMMA CreateManagedKeeps ==
  ASSUME ControlInv, NEW j \in Jobs, NEW a \in OfPlatform, createManaged(j, a),
         workspace' = workspace
  PROVE  ControlInv'
<1>1. /\ a \notin External /\ Unused(a)
      /\ Start(j, "createManaged", Created(a), a, Nobody)
  BY DEF createManaged
<1>2. /\ status[a] = "none" /\ \A k \in Jobs : ~Creates(k, a)
      /\ a \in Authorities /\ a \in Places /\ \A w \in Workspaces : CaOf[w] # a
  BY <1>1, UnusedIs, PlatformIs
<1>3. Issued(Nobody) \in BOOLEAN /\ Sound(<<>>, Rows \cup {a}, Issued(Nobody))
  BY FreeIs, PlainIsSound DEF Issued
<1>4. Created(a) \o <<>> = Created(a)
  <2>1. Step("put", a) \in StepSet /\ Step("insert", a) \in StepSet BY <1>2, StepIs DEF Deeds, Creating
  <2>2. Created(a) \in Seq(StepSet) BY <2>1 DEF Created
  <2> QED BY <2>2, ConcatEmptySeq
<1>5. Sound(Created(a), Rows, Issued(Nobody)) /\ Head(Created(a)) = Step("put", a)
  <2>1. PICK s : s = <<>> OBVIOUS
  <2>2. Sound(s, Rows \cup {a}, Issued(Nobody)) /\ s = <<>> BY <1>3, <2>1
  <2>3. Sound(Created(a) \o s, Rows, Issued(Nobody)) /\ Head(Created(a) \o s) = Step("put", a)
    BY <1>2, <1>3, <2>2, CreatedFirst
  <2> QED BY <1>4, <2>1, <2>3
<1>6. Head(Created(a)).do = "put" /\ Head(Created(a)).at = a BY <1>5 DEF Step
<1>7. "createManaged" \in Operations \ {"none"} /\ "put" \notin Certifying BY DEF Operations, Certifying
<1>8. Nobody \in Certificates \cup {Nobody} OBVIOUS
<1> QED BY <1>1, <1>2, <1>5, <1>6, <1>7, <1>8, StartKeeps

LEMMA ImportExternalKeeps ==
  ASSUME ControlInv, NEW j \in Jobs, NEW a \in OfPlatform, importExternal(j, a),
         workspace' = workspace
  PROVE  ControlInv'
<1> DEFINE x == Step("insert", a)
<1>1. /\ a \in External /\ Unused(a)
      /\ Start(j, "importExternal", <<x>>, a, Nobody)
  BY DEF importExternal
<1>2. /\ status[a] = "none" /\ \A k \in Jobs : ~Creates(k, a)
      /\ a \in Authorities /\ a \in Places /\ \A w \in Workspaces : CaOf[w] # a
  BY <1>1, UnusedIs, PlatformIs
<1>3. x \in StepSet /\ x.do = "insert" /\ x.at = a BY <1>2, StepIs DEF Deeds, Creating
<1> HIDE DEF x
<1>4. Issued(Nobody) \in BOOLEAN /\ Sound(<<>>, Rows \cup Inserts(x), Issued(Nobody))
  BY FreeIs, PlainIsSound DEF Issued
<1>5. <<x>> = Front(x, <<>>) BY <1>3, EmptySeq, Single
<1>6. "insert" \notin Settling \cup Certifying BY DEF Settling, Certifying
<1>7. Sound(<<x>>, Rows, Issued(Nobody)) /\ Head(<<x>>) = x
  BY <1>2, <1>3, <1>4, <1>5, <1>6, SoundFront
<1>8. "importExternal" \in Operations \ {"none"} /\ Nobody \in Certificates \cup {Nobody} BY DEF Operations
<1> QED BY <1>1, <1>2, <1>3, <1>6, <1>7, <1>8, StartKeeps

LEMMA SetStatusKeeps ==
  ASSUME ControlInv, NEW j \in Jobs, NEW a \in OfPlatform, NEW to \in Settling, setStatus(j, a, to),
         workspace' = workspace
  PROVE  ControlInv'
<1>1. status[a] # "none" /\ Start(j, to, SetTo(a, to), a, Nobody) BY DEF setStatus
<1>2. a \in Authorities /\ a \in Places /\ a \in Rows BY <1>1, PlatformIs DEF Rows
<1>3. Issued(Nobody) \in BOOLEAN BY DEF Issued
<1>4. /\ Sound(SetTo(a, to), Rows, Issued(Nobody))
      /\ Head(SetTo(a, to)).do \in {"clear"} \cup Settling
  BY <1>2, <1>3, SetToAlone
<1>5. Head(SetTo(a, to)).do \notin Creating \cup Certifying BY <1>4 DEF Settling, Creating, Certifying
<1>6. to \in Operations \ {"none"} /\ Nobody \in Certificates \cup {Nobody} BY DEF Operations, Settling
<1> QED BY <1>1, <1>2, <1>4, <1>5, <1>6, StartKeeps

LEMMA RotateKeeps ==
  ASSUME ControlInv, NEW j \in Jobs, NEW a \in OfPlatform, NEW b \in OfPlatform, rotate(j, a, b),
         workspace' = workspace
  PROVE  ControlInv'
<1> DEFINE second == SetTo(a, "retiring")
           first == SetTo(b, "active")
           todo == Created(b) \o first \o second
<1>1. /\ status[a] # "none" /\ b \notin External /\ Unused(b)
      /\ Start(j, "rotate", todo, a, Nobody)
  BY DEF rotate
<1>2. /\ status[b] = "none" /\ \A k \in Jobs : ~Creates(k, b)
      /\ b \in Authorities /\ b \in Places /\ \A w \in Workspaces : CaOf[w] # b
  BY <1>1, UnusedIs, PlatformIs
<1>3. a \in Authorities /\ a \in Places /\ a \in Rows BY <1>1, PlatformIs DEF Rows
<1>4. Issued(Nobody) \in BOOLEAN /\ {"active", "retiring"} \subseteq Settling BY DEF Issued, Settling
<1>5. /\ Sound(second, Rows \cup {b}, Issued(Nobody)) /\ second # <<>>
      /\ Head(second).do \notin Creating \cup Certifying \cup {"save"}
  <2>1. /\ Sound(second, Rows \cup {b}, Issued(Nobody)) /\ second # <<>>
        /\ Head(second).do \in {"clear"} \cup Settling
    BY <1>3, <1>4, SetToAlone
  <2> QED BY <2>1 DEF Settling, Creating, Certifying
<1> HIDE DEF second
<1>6. /\ Sound(first \o second, Rows \cup {b}, Issued(Nobody))
      /\ Head(first \o second).do \notin Creating \cup Certifying \cup {"save"}
  <2>1. /\ Sound(first \o second, Rows \cup {b}, Issued(Nobody))
        /\ Head(first \o second).do \in {"clear"} \cup Settling
    BY <1>2, <1>4, <1>5, SetToIs
  <2> QED BY <2>1 DEF Settling, Creating, Certifying
<1>7. first \in Seq(StepSet) /\ second \in Seq(StepSet)
  <2>1. b \in Rows \cup {b} OBVIOUS
  <2>2. Sound(first, Rows \cup {b}, Issued(Nobody)) BY <1>2, <1>4, <2>1, SetToAlone
  <2> QED BY <1>5, <2>2 DEF Sound
<1> HIDE DEF first
<1>8. todo = Created(b) \o (first \o second)
  <2>1. Step("put", b) \in StepSet /\ Step("insert", b) \in StepSet BY <1>2, StepIs DEF Deeds, Creating
  <2>2. Created(b) \in Seq(StepSet) BY <2>1 DEF Created
  <2> QED BY <1>7, <2>2, ConcatAssociative
<1> HIDE DEF todo
<1>9. Sound(todo, Rows, Issued(Nobody)) /\ Head(todo) = Step("put", b)
  BY <1>2, <1>4, <1>6, <1>8, CreatedFirst
<1>10. Head(todo).do = "put" /\ Head(todo).at = b BY <1>9 DEF Step
<1>11. "rotate" \in Operations \ {"none"} /\ "put" \notin Certifying BY DEF Operations, Certifying
<1>12. Nobody \in Certificates \cup {Nobody} OBVIOUS
<1> QED BY <1>1, <1>2, <1>3, <1>9, <1>10, <1>11, <1>12, StartKeeps

\* A list that is read, signed and stored.
LEMMA RefreshedIs ==
  ASSUME NEW a \in Places, NEW R, NEW issued \in BOOLEAN
  PROVE  /\ Sound(Refreshed(a), R, issued)
         /\ Refreshed(a) # <<>> /\ Head(Refreshed(a)) = Step("list", a)
         /\ Step("list", a) \in StepSet /\ Step("list", a).do = "list"
<1> DEFINE x == Step("list", a)
           y == Step("save", a)
<1>1. x \in StepSet /\ x.do = "list" /\ y \in StepSet /\ y.do = "save" BY StepIs DEF Deeds
<1>2. Refreshed(a) = <<x, y>> BY DEF Refreshed
<1> HIDE DEF x, y
<1>3. {"list", "save"} \cap (Creating \cup Settling \cup Certifying \cup {"unapprove"}) = {}
  BY DEF Creating, Settling, Certifying
<1>4. <<x, y>> = Front(x, Front(y, <<>>)) BY <1>1, EmptySeq, Pair
<1>5. Sound(<<>>, R, issued) BY FreeIs, PlainIsSound
<1>6. Sound(Front(y, <<>>), R, issued) /\ Head(Front(y, <<>>)) = y
  BY <1>1, <1>3, <1>5, SoundQuietFront
<1>7. Follows(x, y) BY <1>1 DEF Follows
<1>8. /\ Sound(Front(x, Front(y, <<>>)), R, issued) /\ Front(x, Front(y, <<>>)) # <<>>
      /\ Head(Front(x, Front(y, <<>>))) = x
  BY <1>1, <1>3, <1>6, <1>7, SoundQuietFront
<1> QED BY <1>1, <1>2, <1>4, <1>8 DEF x

LEMMA RefreshCrlKeeps ==
  ASSUME ControlInv, NEW j \in Jobs, NEW a \in OfPlatform, refreshCrl(j, a), workspace' = workspace
  PROVE  ControlInv'
<1>1. Start(j, "refreshCrl", Refreshed(a), a, Nobody) BY DEF refreshCrl
<1>2. a \in Places /\ Issued(Nobody) \in BOOLEAN BY PlatformIs DEF Issued
<1>3. Sound(Refreshed(a), Rows, Issued(Nobody)) /\ Head(Refreshed(a)).do = "list"
  BY <1>2, RefreshedIs
<1>4. "refreshCrl" \in Operations \ {"none"} /\ Nobody \in Certificates \cup {Nobody} BY DEF Operations
<1>5. "list" \notin Creating \cup Certifying BY DEF Creating, Certifying
<1> QED BY <1>1, <1>2, <1>3, <1>4, <1>5, StartKeeps

LEMMA UploadCrlKeeps ==
  ASSUME ControlInv, NEW j \in Jobs, NEW a \in OfPlatform, uploadCrl(j, a), workspace' = workspace
  PROVE  ControlInv'
<1> DEFINE y == Step("save", a)
<1>1. Start(j, "uploadCrl", <<y>>, a, Nobody) BY DEF uploadCrl
<1>2. a \in Places /\ Issued(Nobody) \in BOOLEAN BY PlatformIs DEF Issued
<1>3. y \in StepSet /\ y.do = "save" BY <1>2, StepIs DEF Deeds
<1> HIDE DEF y
<1>4. <<y>> = Front(y, <<>>) BY <1>3, EmptySeq, Single
<1>5. Sound(<<>>, Rows, Issued(Nobody)) BY FreeIs, PlainIsSound
<1>6. "save" \notin Creating \cup Settling \cup Certifying \cup {"unapprove"}
  BY DEF Creating, Settling, Certifying
<1>7. Sound(<<y>>, Rows, Issued(Nobody)) /\ Head(<<y>>).do = "save"
  BY <1>2, <1>3, <1>4, <1>5, <1>6, SoundQuietFront
<1>8. "uploadCrl" \in Operations \ {"none"} /\ Nobody \in Certificates \cup {Nobody} BY DEF Operations
<1> QED BY <1>1, <1>2, <1>6, <1>7, <1>8, StartKeeps

LEMMA IssueKeeps ==
  ASSUME ControlInv, NEW j \in Jobs, NEW c \in Certificates, NEW a \in Authorities, issue(j, c, a),
         workspace' = workspace
  PROVE  ControlInv'
<1> DEFINE x == Step("request", a)
           y == Step("sign", a)
           z == Step("record", a)
<1>1. New(c) /\ Start(j, "issue", <<x, y, z>>, a, c) BY DEF issue
<1>2. ~Issued(c) /\ issuance[c] = "none" /\ \A k \in Jobs : ~Certifies(k, c) BY <1>1, NewIs
<1>3. a \in Places /\ Issued(c) \in BOOLEAN BY NobodyIs DEF Issued
<1>4. /\ x \in StepSet /\ x.do = "request" /\ x.at = a
      /\ y \in StepSet /\ y.do = "sign" /\ y.at = a
      /\ z \in StepSet /\ z.do = "record" /\ z.at = a
  BY <1>3, StepIs DEF Deeds, Certifying
<1> HIDE DEF x, y, z
<1>5. <<x, y, z>> = Front(x, Front(y, Front(z, <<>>))) BY <1>4, Triple
<1>6. /\ {"request", "sign", "record"} \cap (Settling \cup Creating \cup {"unapprove"}) = {}
      /\ Inserts(x) = {} /\ Inserts(y) = {} /\ Inserts(z) = {} /\ Rows \cup {} = Rows
  BY <1>4 DEF Creating, Settling, Inserts
<1>7. Sound(Front(z, <<>>), Rows, Issued(c)) /\ Head(Front(z, <<>>)) = z
  <2>1. Sound(<<>>, Rows \cup Inserts(z), Issued(c)) BY FreeIs, PlainIsSound
  <2>2. z.do \notin Settling /\ z.do # "unapprove" BY <1>4, <1>6
  <2> QED BY <1>3, <1>4, <2>1, <2>2, SoundFront
<1>8. Sound(Front(y, Front(z, <<>>)), Rows, Issued(c)) /\ Head(Front(y, Front(z, <<>>))) = y
  <2>1. Sound(Front(z, <<>>), Rows \cup Inserts(y), Issued(c)) BY <1>6, <1>7
  <2>2. y.do \notin Settling /\ y.do # "unapprove" BY <1>4, <1>6
  <2>3. Follows(y, z) BY <1>4 DEF Follows
  <2> QED BY <1>3, <1>4, <1>7, <2>1, <2>2, <2>3, SoundFront
<1>9. Sound(<<x, y, z>>, Rows, Issued(c)) /\ Head(<<x, y, z>>) = x
  <2>1. Sound(Front(y, Front(z, <<>>)), Rows \cup Inserts(x), Issued(c)) BY <1>6, <1>8
  <2>2. x.do \notin Settling /\ x.do # "unapprove" BY <1>4, <1>6
  <2>3. Follows(x, y) BY <1>4 DEF Follows
  <2> QED BY <1>3, <1>4, <1>5, <1>8, <2>1, <2>2, <2>3, SoundFront
<1>10. "issue" \in Operations \ {"none"} BY DEF Operations
<1>11. x.do \notin Creating /\ x.do # "sign" BY <1>4, <1>6
<1> HIDE DEF Front
<1>12. PICK todo : todo = <<x, y, z>> OBVIOUS
<1>13. /\ Sound(todo, Rows, Issued(c)) /\ Head(todo).do \notin Creating /\ Head(todo).do # "sign"
       /\ Start(j, "issue", todo, a, c)
  BY <1>1, <1>9, <1>11, <1>12
<1> QED BY <1>2, <1>3, <1>10, <1>13, StartKeeps

LEMMA RegisterExternalKeeps ==
  ASSUME ControlInv, NEW j \in Jobs, NEW c \in Certificates, NEW a \in Authorities,
         registerExternal(j, c, a), workspace' = workspace
  PROVE  ControlInv'
<1> DEFINE z == Step("record", a)
<1>1. New(c) /\ Start(j, "registerExternal", <<z>>, a, c) BY DEF registerExternal
<1>2. ~Issued(c) /\ issuance[c] = "none" /\ \A k \in Jobs : ~Certifies(k, c) BY <1>1, NewIs
<1>3. a \in Places /\ Issued(c) \in BOOLEAN BY NobodyIs DEF Issued
<1>4. z \in StepSet /\ z.do = "record" /\ z.at = a BY <1>3, StepIs DEF Deeds, Certifying
<1> HIDE DEF z
<1>5. <<z>> = Front(z, <<>>) BY <1>4, EmptySeq, Single
<1>6. "record" \notin Settling \cup Creating BY DEF Creating, Settling
<1>7. Sound(<<z>>, Rows, Issued(c)) /\ Head(<<z>>) = z
  <2>1. Sound(<<>>, Rows \cup Inserts(z), Issued(c)) BY FreeIs, PlainIsSound
  <2>2. z.do \notin Settling /\ z.do # "unapprove" BY <1>4, <1>6
  <2> QED BY <1>3, <1>4, <1>5, <2>1, <2>2, SoundFront
<1>8. "registerExternal" \in Operations \ {"none"} BY DEF Operations
<1>9. PICK todo : todo = <<z>> OBVIOUS
<1>10. /\ Sound(todo, Rows, Issued(c)) /\ Head(todo).do \notin Creating /\ Head(todo).do # "sign"
       /\ Start(j, "registerExternal", todo, a, c)
  BY <1>1, <1>4, <1>6, <1>7, <1>9
<1> QED BY <1>2, <1>3, <1>8, <1>10, StartKeeps

LEMMA RevokeKeeps ==
  ASSUME ControlInv, NEW j \in Jobs, NEW c \in Certificates, revoke(j, c), workspace' = workspace
  PROVE  ControlInv'
<1> PICK a : a = certificate[c].by OBVIOUS
<1> DEFINE x == Step("unapprove", a)
<1>1. /\ certificate[c].status # "none"
      /\ Start(j, "revokeCertificate", <<x>> \o Refreshed(a), a, c)
  BY DEF revoke
<1>2. Issued(c) /\ a \in Places
  <2>1. Issued(c) BY <1>1 DEF Issued
  <2> QED BY <2>1, ControlInvIs, NobodyIs DEF StateOK, LabsOK
<1>3. x \in StepSet /\ x.do = "unapprove" BY <1>2, StepIs DEF Deeds
<1>4. /\ Sound(Refreshed(a), Rows, Issued(c)) /\ Refreshed(a) # <<>>
      /\ Head(Refreshed(a)) = Step("list", a) /\ Step("list", a).do = "list"
  BY <1>2, RefreshedIs
<1> HIDE DEF x
<1>5. <<x>> \o Refreshed(a) = Front(x, Refreshed(a)) BY DEF Front
<1>6. Sound(<<x>> \o Refreshed(a), Rows, Issued(c)) /\ Head(<<x>> \o Refreshed(a)) = x
  <2>1. Inserts(x) = {} /\ Rows \cup {} = Rows BY <1>3 DEF Inserts
  <2>2. Sound(Refreshed(a), Rows \cup Inserts(x), Issued(c)) BY <1>4, <2>1
  <2>3. Follows(x, Head(Refreshed(a))) BY <1>4 DEF Follows
  <2>4. x.do \notin Creating \cup Settling \cup Certifying BY <1>3 DEF Creating, Settling, Certifying
  <2> QED BY <1>2, <1>3, <1>5, <2>2, <2>3, <2>4, SoundFront
<1>7. x.do \notin Creating \cup Certifying BY <1>3 DEF Creating, Certifying
<1>8. "revokeCertificate" \in Operations \ {"none"} BY DEF Operations
<1> QED BY <1>1, <1>2, <1>6, <1>7, <1>8, StartKeeps

-----------------------------------------------------------------------------
\* The requests of the labs.

LEMMA ExpiriesPlain ==
  ASSUME due \subseteq Workspaces, NEW s \in Orders(DueNow)
  PROVE  Plain(Expiries(s) \o Publication)
<1>1. DueNow \subseteq Workspaces BY DEF DueNow
<1>2. IsFiniteSet(DueNow) BY <1>1, LabAssumption, FS_Subset
<1>3. Cardinality(DueNow) \in Nat BY <1>2, FS_CardinalityType
<1>4. PICK n \in Nat : s \in [1 .. n -> DueNow] BY <1>3 DEF Orders
<1>5. Expiries(s) = [i \in 1 .. n |-> Step("expire", s[i])] BY <1>4 DEF Expiries
<1>6. \A i \in 1 .. n : Step("expire", s[i]) \in StepSet /\ Step("expire", s[i]).do = "expire"
  BY <1>1, <1>4, NobodyIs, StepIs DEF Deeds
<1>7. Expiries(s) \in Seq(StepSet) /\ Len(Expiries(s)) = n
  BY <1>4, <1>5, <1>6, IsASeq
<1>8. \A i \in 1 .. n : Expiries(s)[i].do = "expire" BY <1>5, <1>6
<1>9. Plain(Expiries(s)) BY <1>7, <1>8 DEF Plain, Creating, Settling, Certifying
<1> QED BY <1>9, PlainSequences, PlainAppend

LEMMA LabRequestsKeep ==
  ASSUME ControlInv, due \subseteq Workspaces, NEW j \in Jobs, LabRequests(j), workspace' = workspace
  PROVE  ControlInv'
<1>1. {"create", "reset", "end", "lab", "sweep"} \subseteq Operations \ {"none"} BY DEF Operations
<1>2. CASE create(j)
  <2>1. Plain(<<Step("reserve", Nobody)>>) BY PlainSequences
  <2> QED BY <1>1, <1>2, <2>1, StartPlainKeeps DEF create
<1>3. CASE reset(j)
  <2>1. Plain(<<Step("reset", Nobody)>>) BY PlainSequences
  <2> QED BY <1>1, <1>3, <2>1, StartPlainKeeps DEF reset
<1>4. CASE revokeWorkspace(j)
  <2>1. Plain(<<Step("end", Nobody)>> \o Publication) BY PlainSequences
  <2> QED BY <1>1, <1>4, <2>1, StartPlainKeeps DEF revokeWorkspace
<1>5. CASE labRequest(j)
  <2>1. Plain(<<Step("resolve", Nobody)>>) BY PlainSequences
  <2> QED BY <1>1, <1>5, <2>1, StartPlainKeeps DEF labRequest
<1>6. CASE expireDueLabWorkspaces(j)
  <2>1. PICK s \in Orders(DueNow) : Start(j, "sweep", Expiries(s) \o Publication, Nobody, Nobody)
    BY <1>6 DEF expireDueLabWorkspaces
  <2>2. Plain(Expiries(s) \o Publication) BY <2>1, ExpiriesPlain
  <2> QED BY <1>1, <2>1, <2>2, StartPlainKeeps
<1> QED BY <1>2, <1>3, <1>4, <1>5, <1>6 DEF LabRequests

-----------------------------------------------------------------------------
\* The transactions of the labs.

LEMMA LabStateKept ==
  ASSUME StateOK, Rows' = Rows, status' \in [Authorities -> AuthorityStatuses],
         issuer' \subseteq Authorities,
         certificate' \in [Certificates ->
             [status : {"none", "approved", "revoked"}, by : Authorities \cup {Nobody}]],
         \A c \in Certificates : Issued(c)' = Issued(c) /\ certificate'[c].by = certificate[c].by,
         UNCHANGED <<crl, issuance, keys, ageVars, trustVars, failures>>,
         workspace' \in [Workspaces -> {"none", "active", "expired", "revoked"}],
         \A w \in Workspaces : workspace'[w] = "none" => workspace[w] = "none"
  PROVE  StateOK'
<1>1. \A a \in Authorities : status'[a] # "none" <=> status[a] # "none" BY DEF Rows
<1>2. \A c \in Certificates : certificate'[c].status # "none" <=> certificate[c].status # "none"
  BY DEF Issued
<1>3. LabsOK'
  <2>1. \A w \in Workspaces : CaOf[w] \in Authorities BY LabAssumption
  <2> QED BY <1>1, <2>1 DEF StateOK, LabsOK
<1>4. /\ \A a \in Authorities \ External : status'[a] # "none" => a \in keys'
      /\ \A c \in Certificates :
          /\ issuance'[c] = "completed" => certificate'[c].status # "none"
          /\ issuance'[c] = "failed" => certificate'[c].status = "none"
  BY <1>1, <1>2 DEF StateOK
<1> QED BY <1>3, <1>4 DEF StateOK, ageVars, trustVars

LEMMA DisabledIs ==
  ASSUME StateOK, NEW W, Disabled(W)
  PROVE  /\ certificate' \in [Certificates ->
              [status : {"none", "approved", "revoked"}, by : Authorities \cup {Nobody}]]
         /\ \A c \in Certificates : Issued(c)' = Issued(c) /\ certificate'[c].by = certificate[c].by
<1>1. certificate' = [c \in Certificates |->
          IF certificate[c].status = "approved" /\ HomeOf[certificate[c].by] \in W
          THEN [certificate[c] EXCEPT !.status = "revoked"] ELSE certificate[c]]
  BY DEF Disabled
<1>2. \A c \in Certificates :
         certificate[c] \in [status : {"none", "approved", "revoked"}, by : Authorities \cup {Nobody}]
  BY DEF StateOK
<1>3. \A c \in Certificates :
         \/ certificate'[c] = certificate[c]
         \/ /\ certificate[c].status = "approved"
            /\ certificate'[c] = [certificate[c] EXCEPT !.status = "revoked"]
  BY <1>1
<1>4. \A c \in Certificates :
         /\ certificate'[c] \in [status : {"none", "approved", "revoked"}, by : Authorities \cup {Nobody}]
         /\ certificate'[c].by = certificate[c].by
         /\ certificate'[c].status # "none" <=> certificate[c].status # "none"
  BY <1>2, <1>3
<1>5. certificate' = [c \in Certificates |-> certificate'[c]] BY <1>1
<1> QED BY <1>4, <1>5 DEF Issued

LEMMA DeactivatedIs ==
  ASSUME StateOK, NEW W, Deactivated(W)
  PROVE  /\ certificate' \in [Certificates ->
              [status : {"none", "approved", "revoked"}, by : Authorities \cup {Nobody}]]
         /\ \A c \in Certificates : Issued(c)' = Issued(c) /\ certificate'[c].by = certificate[c].by
         /\ status' \in [Authorities -> AuthorityStatuses] /\ Rows' = Rows
         /\ issuer' \subseteq Authorities
<1>1. /\ Disabled(W)
      /\ status' = [a \in Authorities |->
            IF HomeOf[a] \in W /\ status[a] # "none" THEN "revoked" ELSE status[a]]
      /\ issuer' = {a \in issuer : HomeOf[a] \notin W}
  BY DEF Deactivated
<1>2. status' \in [Authorities -> AuthorityStatuses] BY <1>1 DEF StateOK, AuthorityStatuses
<1>3. \A a \in Authorities : status'[a] # "none" <=> status[a] # "none" BY <1>1
<1>4. Rows' = Rows BY <1>3 DEF Rows
<1>5. issuer' \subseteq Authorities BY <1>1 DEF StateOK
<1> QED BY <1>1, <1>2, <1>4, <1>5, DisabledIs

\* A job goes on to something quiet, and nothing else that ControlInv tells
\* changes.
LEMMA MovesKeep ==
  ASSUME ControlInv, NEW j \in Jobs, NEW r \in JobRecords, Named(r),
         job' = [job EXCEPT ![j] = r],
         Sound(r.todo, Rows, Issued(r.cert)),
         r.todo # <<>> => Head(r.todo).do \notin Creating \cup Certifying \cup {"save"},
         UNCHANGED <<rowVars, keys, ageVars, trustVars, failures, workspace>>
  PROVE  ControlInv'
<1>1. /\ \A k \in Jobs \ {j} : Untouched(k)
      /\ job'[j] = r /\ job' = [k \in Jobs |-> job'[k]]
  BY OnlyMoves
<1>2. status' = status /\ certificate' = certificate /\ issuance' = issuance /\ workspace' = workspace
  BY DEF rowVars
<1>3. /\ Rows' = Rows /\ \A c : Issued(c)' = Issued(c)
      /\ \A w \in Workspaces : workspace[w] # "none" => workspace'[w] # "none"
  BY <1>2, SameRows
<1>4. Sound(job'[j].todo, Rows, Issued(job[j].cert)') BY <1>1, <1>2 DEF Issued
<1>5. Pending(j, "save")' => job'[j].seen \subseteq Certificates BY <1>1 DEF Pending
<1>6. \A k \in Jobs : JobOK(k)' BY <1>1, <1>2, <1>3, <1>4, <1>5, QuietKept
<1>7. StateOK'
  <2>1. StateOK BY ControlInvIs
  <2> QED BY <2>1 DEF StateOK, rowVars, ageVars, trustVars, LabsOK, Issued
<1> QED BY <1>1, <1>6, <1>7, ControlInvNext

\* A job that fails, and goes on to undo.
LEMMA FailingKeeps ==
  ASSUME ControlInv, NEW j \in Jobs, NEW todo,
         Sound(todo, Rows, Issued(job[j].cert)),
         todo # <<>> => Head(todo).do \notin Creating \cup Certifying \cup {"save"},
         job' = [job EXCEPT ![j] = Failing(j, todo)],
         UNCHANGED <<rowVars, keys, ageVars, trustVars, failures, workspace>>
  PROVE  ControlInv'
<1> DEFINE r == Failing(j, todo)
<1>1. job[j] \in JobRecords BY DEF ControlInv, JobOK
<1>2. r \in JobRecords /\ Named(r) /\ r.todo = todo /\ r.cert = job[j].cert
  <2>1. todo \in Seq(StepSet) /\ "failed" \in Operations BY DEF Sound, Operations
  <2> QED BY <1>1, <2>1 DEF Failing, JobRecords, Named
<1> HIDE DEF r
<1>3. job' = [job EXCEPT ![j] = r] BY DEF r
<1> QED BY <1>2, <1>3, MovesKeep

LEMMA ReuseKeeps ==
  ASSUME ControlInv, NEW j \in Jobs, Reuse(j)
  PROVE  ControlInv'
<1>1. /\ job' = [job EXCEPT ![j] = Free]
      /\ UNCHANGED <<rowVars, keys, ageVars, trustVars, failures, workspace>>
  BY DEF Reuse, labOnly
<1>2. Free \in JobRecords /\ Named(Free) BY FreeIs DEF Named
<1>3. Free.todo = <<>> /\ Sound(<<>>, Rows, Issued(Free.cert)) BY FreeIs, PlainIsSound
<1> QED BY <1>1, <1>2, <1>3, MovesKeep

LEMMA NoWorkspaceKeeps ==
  ASSUME ControlInv, NEW j \in Jobs, NoWorkspace(j) \/ Refused(j)
  PROVE  ControlInv'
<1>1. /\ job' = [job EXCEPT ![j] = Failing(j, Undo(j))]
      /\ UNCHANGED <<rowVars, keys, ageVars, trustVars, failures, workspace>>
  BY DEF NoWorkspace, Refused, labOnly
<1> PICK undo : undo = Undo(j) OBVIOUS
<1>2. Undoes(j, undo) BY UndoIs
<1>3. /\ Sound(undo, Rows, Issued(job[j].cert))
      /\ undo # <<>> => Head(undo).do \notin Creating \cup Certifying \cup {"save"}
  BY <1>2, UndoQuiet
<1> QED BY <1>1, <1>3, FailingKeeps

LEMMA ResolveDueKeeps ==
  ASSUME ControlInv, NEW j \in Jobs, ResolveDue(j)
  PROVE  ControlInv'
<1> PICK undo : undo = Undo(j) OBVIOUS
<1>1. PICK w \in Current \cap due : job' = [job EXCEPT ![j] = Failing(j, <<Step("expire", w)>> \o undo)]
  BY DEF ResolveDue
<1>2. UNCHANGED <<rowVars, keys, ageVars, trustVars, failures, workspace>>
  BY DEF ResolveDue, labOnly
<1>3. /\ Sound(undo, Rows, Issued(job[j].cert))
      /\ undo # <<>> => Head(undo).do \notin Creating \cup Certifying \cup {"save"}
  BY UndoIs, UndoQuiet
<1> DEFINE x == Step("expire", w)
<1>4. x \in StepSet /\ x.do = "expire"
  <2>1. w \in Places BY NobodyIs DEF Current
  <2> QED BY <2>1, StepIs DEF Deeds
<1>5. <<x>> \o undo = Front(x, undo) BY DEF Front
<1> HIDE DEF x
<1>6. "expire" \notin Creating \cup Settling \cup Certifying \cup {"save", "unapprove"}
  BY DEF Creating, Settling, Certifying
<1>7. /\ Sound(<<x>> \o undo, Rows, Issued(job[j].cert))
      /\ Head(<<x>> \o undo).do \notin Creating \cup Certifying \cup {"save"}
  <2>1. undo # <<>> => Follows(x, Head(undo)) BY <1>3, FollowsAny
  <2>2. Issued(job[j].cert) \in BOOLEAN BY DEF Issued
  <2>3. Sound(Front(x, undo), Rows, Issued(job[j].cert)) /\ Head(Front(x, undo)) = x
    BY <1>3, <1>4, <1>6, <2>1, <2>2, SoundQuietFront
  <2> QED BY <1>4, <1>5, <1>6, <2>3
<1> QED BY <1>1, <1>2, <1>7, FailingKeeps DEF x

\* What goes on by Advance from a plain step, when it touches but the labs.
LEMMA LabAdvanceKeeps ==
  ASSUME ControlInv, NEW j \in Jobs, NEW do, Pending(j, do),
         do \in {"resolve", "target"} \cup Parts, NEW q \in JobRecords,
         q.todo = job[j].todo, q.cert = job[j].cert, q.left = job[j].left, q.op = job[j].op,
         job' = [job EXCEPT ![j] = Advanced(q)],
         UNCHANGED <<rowVars, keys, ageVars, trustVars, failures, workspace>>
  PROVE  ControlInv'
<1>1. job[j].todo # <<>> /\ Head(job[j].todo).do = do BY PendingIs
<1>2. do \notin Creating \cup Certifying \cup {"list"} BY DEF Parts, Creating, Certifying
<1>3. status' = status /\ certificate' = certificate /\ issuance' = issuance /\ workspace' = workspace
  BY DEF rowVars
<1>4. /\ Rows' = Rows /\ \A c : Issued(c)' = Issued(c)
      /\ \A w \in Workspaces : workspace[w] # "none" => workspace'[w] # "none"
  BY <1>3, SameRows
<1>5. job' = [k \in Jobs |-> job'[k]] /\ \A k \in Jobs : JobOK(k)'
  BY <1>1, <1>2, <1>3, <1>4, QuietAdvance
<1>6. StateOK'
  <2>1. StateOK BY ControlInvIs
  <2> QED BY <2>1 DEF StateOK, rowVars, ageVars, trustVars, LabsOK, Issued
<1> QED BY <1>5, <1>6, ControlInvNext

LEMMA ResolveKeeps ==
  ASSUME ControlInv, NEW j \in Jobs, Resolve(j)
  PROVE  ControlInv'
<1>1. PICK w \in Current \ due : job' = [job EXCEPT ![j] = Advanced([job[j] EXCEPT !.home = w])]
  BY DEF Resolve
<1>2. /\ Pending(j, "resolve")
      /\ UNCHANGED <<rowVars, keys, ageVars, trustVars, failures, workspace>>
  BY DEF Resolve, labOnly
<1> DEFINE q == [job[j] EXCEPT !.home = w]
<1>3. w \in Places BY NobodyIs DEF Current
<1>4. job[j] \in JobRecords BY DEF ControlInv, JobOK
<1>5. /\ q \in JobRecords /\ q.todo = job[j].todo /\ q.cert = job[j].cert /\ q.left = job[j].left
      /\ q.op = job[j].op
  BY <1>3, <1>4 DEF JobRecords
<1> HIDE DEF q
<1>6. job' = [job EXCEPT ![j] = Advanced(q)] BY <1>1 DEF q
<1> QED BY <1>2, <1>5, <1>6, LabAdvanceKeeps

LEMMA FindTargetKeeps ==
  ASSUME ControlInv, NEW j \in Jobs, FindTarget(j)
  PROVE  ControlInv'
<1>1. /\ Pending(j, "target") /\ job' = [job EXCEPT ![j] = Advanced(job[j])]
      /\ UNCHANGED <<rowVars, keys, ageVars, trustVars, failures, workspace>>
  BY DEF FindTarget, Advance, labOnly
<1>2. job[j] \in JobRecords BY DEF ControlInv, JobOK
<1> QED BY <1>1, <1>2, LabAdvanceKeeps

LEMMA MakePartKeeps ==
  ASSUME ControlInv, NEW j \in Jobs, NEW part \in Parts, MakePart(j, part)
  PROVE  ControlInv'
<1>1. /\ Pending(j, part) /\ job' = [job EXCEPT ![j] = Advanced(job[j])]
      /\ UNCHANGED <<rowVars, keys, ageVars, trustVars, failures, workspace>>
  BY DEF MakePart, Advance
<1>2. job[j] \in JobRecords BY DEF ControlInv, JobOK
<1> QED BY <1>1, <1>2, LabAdvanceKeeps

\* The workspaces that end.
LEMMA EndedIs ==
  ASSUME StateOK, NEW W \in SUBSET Workspaces, NEW to \in {"expired", "revoked"},
         workspace' = [w \in Workspaces |-> IF w \in W THEN to ELSE workspace[w]]
  PROVE  /\ workspace' \in [Workspaces -> {"none", "active", "expired", "revoked"}]
         /\ \A w \in Workspaces : workspace'[w] = "none" => workspace[w] = "none"
         /\ \A w \in Workspaces : workspace[w] # "none" => workspace'[w] # "none"
BY DEF StateOK, LabsOK

LEMMA ExpireKeeps ==
  ASSUME ControlInv, NEW j \in Jobs, Expire(j)
  PROVE  ControlInv'
<1> PICK W : W = {At(j)} \cap Current OBVIOUS
<1>1. /\ Pending(j, "expire") /\ Deactivated(W)
      /\ workspace' = [w \in Workspaces |-> IF w \in W THEN "expired" ELSE workspace[w]]
      /\ job' = [job EXCEPT ![j] = Advanced(job[j])]
      /\ UNCHANGED <<crl, issuance, keys, ageVars, trustVars, failures>>
  BY DEF Expire, Advance
<1>2. StateOK BY ControlInvIs
<1>3. /\ workspace' \in [Workspaces -> {"none", "active", "expired", "revoked"}]
      /\ \A w \in Workspaces : workspace'[w] = "none" => workspace[w] = "none"
      /\ \A w \in Workspaces : workspace[w] # "none" => workspace'[w] # "none"
  <2>1. W \in SUBSET Workspaces BY DEF Current
  <2> QED BY <1>1, <1>2, <2>1, EndedIs
<1>4. /\ certificate' \in [Certificates ->
              [status : {"none", "approved", "revoked"}, by : Authorities \cup {Nobody}]]
      /\ \A c \in Certificates : Issued(c)' = Issued(c) /\ certificate'[c].by = certificate[c].by
      /\ status' \in [Authorities -> AuthorityStatuses] /\ Rows' = Rows
      /\ issuer' \subseteq Authorities
  BY <1>1, <1>2, DeactivatedIs
<1>5. StateOK' BY <1>1, <1>2, <1>3, <1>4, LabStateKept
<1>6. job' = [k \in Jobs |-> job'[k]] /\ \A k \in Jobs : JobOK(k)'
  <2>1. job[j].todo # <<>> /\ Head(job[j].todo).do = "expire" BY <1>1, PendingIs
  <2>2. "expire" \notin Creating \cup Certifying \cup {"list"} BY DEF Creating, Certifying
  <2>3. job[j] \in JobRecords BY DEF ControlInv, JobOK
  <2> QED BY <1>1, <1>3, <1>4, <2>1, <2>2, <2>3, QuietAdvance
<1> QED BY <1>5, <1>6, ControlInvNext

LEMMA EndKeeps ==
  ASSUME ControlInv, NEW j \in Jobs, End(j)
  PROVE  ControlInv'
<1> DEFINE r == [job[j] EXCEPT !.todo = Tail(@)]
<1>1. PICK v \in Current : Deactivated({v}) /\ workspace' = [workspace EXCEPT ![v] = "revoked"]
  BY DEF End
<1>2. /\ Pending(j, "end") \/ Pending(j, "abandon")
      /\ job' = [job EXCEPT ![j] = r]
      /\ UNCHANGED <<crl, issuance, keys, ageVars, trustVars, failures>>
  BY DEF End
<1>3. StateOK BY ControlInvIs
<1>4. /\ workspace' \in [Workspaces -> {"none", "active", "expired", "revoked"}]
      /\ \A w \in Workspaces : workspace'[w] = "none" => workspace[w] = "none"
      /\ \A w \in Workspaces : workspace[w] # "none" => workspace'[w] # "none"
  BY <1>1, <1>3 DEF StateOK, LabsOK, Current
<1>5. /\ certificate' \in [Certificates ->
              [status : {"none", "approved", "revoked"}, by : Authorities \cup {Nobody}]]
      /\ \A c \in Certificates : Issued(c)' = Issued(c) /\ certificate'[c].by = certificate[c].by
      /\ status' \in [Authorities -> AuthorityStatuses] /\ Rows' = Rows
      /\ issuer' \subseteq Authorities
  BY <1>1, <1>3, DeactivatedIs
<1>6. StateOK' BY <1>2, <1>3, <1>4, <1>5, LabStateKept
<1>7. job[j].todo # <<>> /\ Head(job[j].todo).do \in {"end", "abandon"} BY <1>2, PendingIs
<1>8. /\ r \in JobRecords /\ Named(r) /\ r.todo = Tail(job[j].todo) /\ r.cert = job[j].cert
  <2>1. job[j] \in JobRecords /\ Named(job[j]) BY DEF ControlInv, JobOK
  <2>2. Tail(job[j].todo) \in Seq(StepSet) BY <1>7, <2>1, TailIs DEF JobRecords
  <2> QED BY <1>7, <2>1, <2>2 DEF JobRecords, Named
<1> HIDE DEF r
<1>9. /\ \A k \in Jobs \ {j} : Untouched(k)
      /\ job'[j] = r /\ job' = [k \in Jobs |-> job'[k]]
  BY <1>2, OnlyMoves
<1>10. \A k \in Jobs : JobOK(k)'
  <2>1. Head(job[j].todo).do \notin Creating \cup Certifying /\ Head(job[j].todo).do # "list"
    BY <1>7 DEF Creating, Certifying
  <2> QED BY <1>2, <1>4, <1>5, <1>7, <1>8, <1>9, <2>1, QuietTail
<1> QED BY <1>6, <1>9, <1>10, ControlInvNext

LEMMA ResetKeeps ==
  ASSUME ControlInv, NEW j \in Jobs, Reset(j)
  PROVE  ControlInv'
<1> DEFINE r == [job[j] EXCEPT !.todo = Sample]
<1>1. PICK w \in Current \ due : Disabled({w}) BY DEF Reset
<1>2. /\ Pending(j, "reset") /\ job' = [job EXCEPT ![j] = r]
      /\ UNCHANGED <<status, issuer, crl, issuance, keys, ageVars, trustVars, failures, workspace>>
  BY DEF Reset
<1>3. StateOK BY ControlInvIs
<1>4. /\ certificate' \in [Certificates ->
              [status : {"none", "approved", "revoked"}, by : Authorities \cup {Nobody}]]
      /\ \A c \in Certificates : Issued(c)' = Issued(c) /\ certificate'[c].by = certificate[c].by
  BY <1>1, <1>3, DisabledIs
<1>5. Rows' = Rows BY <1>2 DEF Rows
<1>6. StateOK'
  <2>1. /\ status' \in [Authorities -> AuthorityStatuses] /\ issuer' \subseteq Authorities
        /\ workspace' \in [Workspaces -> {"none", "active", "expired", "revoked"}]
        /\ \A v \in Workspaces : workspace'[v] = "none" => workspace[v] = "none"
    BY <1>2, <1>3 DEF StateOK, LabsOK
  <2> QED BY <1>2, <1>3, <1>4, <1>5, <2>1, LabStateKept
<1>7. Plain(Sample) BY PlainSequences
<1>8. r \in JobRecords /\ Named(r) /\ r.todo = Sample
  <2>1. job[j] \in JobRecords /\ Named(job[j]) BY DEF ControlInv, JobOK
  <2>2. job[j].op # "none" BY <1>2, <2>1 DEF Named, Pending
  <2> QED BY <1>7, <2>1, <2>2 DEF JobRecords, Named, Plain
<1> HIDE DEF r
<1>9. /\ \A k \in Jobs \ {j} : Untouched(k)
      /\ job'[j] = r /\ job' = [k \in Jobs |-> job'[k]]
  BY <1>2, OnlyMoves
<1>10. \A k \in Jobs : JobOK(k)'
  <2>1. /\ Sound(job'[j].todo, Rows, Issued(job[j].cert)')
        /\ job'[j].todo # <<>> => Head(job'[j].todo).do \notin Creating \cup Certifying \cup {"save"}
    BY <1>7, <1>8, <1>9, PlainIsSound
  <2>2. Pending(j, "save")' => job'[j].seen \subseteq Certificates BY <2>1 DEF Pending
  <2>3. \A v \in Workspaces : workspace[v] # "none" => workspace'[v] # "none" BY <1>2
  <2> QED BY <1>2, <1>4, <1>5, <1>8, <1>9, <2>1, <2>2, <2>3, QuietKept
<1> QED BY <1>6, <1>9, <1>10, ControlInvNext

\* Only the authority of a workspace not created before is created with it.
LEMMA ReserveKeeps ==
  ASSUME ControlInv, NEW j \in Jobs, NEW w \in Workspaces, Reserve(j, w)
  PROVE  ControlInv'
<1> PICK a : a = CaOf[w] OBVIOUS
<1> DEFINE todo == Created(a) \o SetTo(a, "active") \o Sample
           r == [job[j] EXCEPT !.todo = todo]
<1>1. /\ Pending(j, "reserve") /\ workspace[w] = "none" /\ Deactivated(Current)
      /\ workspace' = [v \in Workspaces |->
            IF v = w THEN "active" ELSE IF v \in Current THEN "expired" ELSE workspace[v]]
      /\ job' = [job EXCEPT ![j] = r]
      /\ UNCHANGED <<crl, issuance, keys, ageVars, trustVars, failures>>
  BY DEF Reserve
<1>2. StateOK /\ \A k \in Jobs : JobOK(k) BY ControlInvIs
<1>3. /\ a \in Authorities \ External /\ a \in Authorities /\ a \notin External
      /\ \A v \in Workspaces : CaOf[v] = a => v = w
  BY LabAssumption
<1>4. /\ workspace' \in [Workspaces -> {"none", "active", "expired", "revoked"}]
      /\ \A v \in Workspaces : workspace'[v] = "none" => workspace[v] = "none"
      /\ \A v \in Workspaces : workspace[v] # "none" => workspace'[v] # "none"
      /\ workspace'[w] = "active"
  BY <1>1, <1>2 DEF StateOK, LabsOK
<1>5. /\ certificate' \in [Certificates ->
              [status : {"none", "approved", "revoked"}, by : Authorities \cup {Nobody}]]
      /\ \A c \in Certificates : Issued(c)' = Issued(c) /\ certificate'[c].by = certificate[c].by
      /\ status' \in [Authorities -> AuthorityStatuses] /\ Rows' = Rows
      /\ issuer' \subseteq Authorities
  BY <1>1, <1>2, DeactivatedIs
<1>6. StateOK' BY <1>1, <1>2, <1>4, <1>5, LabStateKept
<1>7. status'[a] = "none"
  <2>1. status[a] = "none" BY <1>1, <1>2 DEF StateOK, LabsOK
  <2> QED BY <1>3, <1>5, <2>1 DEF Rows
<1>8. \A k \in Jobs : ~Creates(k, a)
  <2>1. \A k \in Jobs : CreatesNew(k) BY <1>2 DEF JobOK
  <2> QED BY <1>1, <1>3, <2>1 DEF CreatesNew
<1>9. Issued(job[j].cert)' \in BOOLEAN BY DEF Issued
<1>10. Sound(todo, Rows, Issued(job[j].cert)') /\ todo # <<>> /\ Head(todo) = Step("put", a)
  <2>1. /\ Plain(Sample) /\ Sample # <<>> BY PlainSequences
  <2> PICK g \in BOOLEAN : g = Issued(job[j].cert)' BY <1>9
  <2>2. /\ Sound(Sample, Rows \cup {a}, g)
        /\ Head(Sample).do \notin Creating \cup Certifying \cup {"save"}
    BY <2>1, PlainIsSound
  <2> DEFINE set == SetTo(a, "active")
  <2>3. Sound(set \o Sample, Rows \cup {a}, g) /\ Head(set \o Sample).do \in {"clear"} \cup Settling
    <3>1. "active" \in Settling /\ a \in Rows \cup {a} BY DEF Settling
    <3> QED BY <1>3, <2>2, <3>1, SetToIs
  <2>4. set \in Seq(StepSet)
    <3>1. "active" \in Settling /\ a \in Rows \cup {a} BY DEF Settling
    <3>2. Sound(set, Rows \cup {a}, g) BY <1>3, <3>1, SetToAlone
    <3> QED BY <3>2 DEF Sound
  <2>5. Created(a) \in Seq(StepSet)
    <3>1. Step("put", a) \in StepSet /\ Step("insert", a) \in StepSet
      BY <1>3, NobodyIs, StepIs DEF Deeds, Creating
    <3> QED BY <3>1 DEF Created
  <2> HIDE DEF set
  <2>6. Created(a) \o set \o Sample = Created(a) \o (set \o Sample)
    <3>1. Sample \in Seq(StepSet) BY <2>1 DEF Plain
    <3> QED BY <2>4, <2>5, <3>1, ConcatAssociative
  <2>7. Head(set \o Sample).do \notin Creating \cup Certifying \cup {"save"}
    BY <2>3 DEF Settling, Creating, Certifying
  <2>8. /\ Sound(Created(a) \o (set \o Sample), Rows, g)
        /\ Created(a) \o (set \o Sample) # <<>>
        /\ Head(Created(a) \o (set \o Sample)) = Step("put", a)
    BY <1>3, <2>3, <2>7, CreatedFirst
  <2> QED BY <2>6, <2>8 DEF set
<1> HIDE DEF todo
<1>11. Head(todo).do = "put" /\ Head(todo).at = a BY <1>10 DEF Step
<1>12. r \in JobRecords /\ Named(r) /\ r.todo = todo /\ r.cert = job[j].cert
  <2>1. job[j] \in JobRecords /\ Named(job[j]) BY DEF ControlInv, JobOK
  <2>2. job[j].op # "none" /\ todo \in Seq(StepSet) BY <1>1, <1>10, <2>1 DEF Named, Pending, Sound
  <2> QED BY <2>1, <2>2 DEF JobRecords, Named
<1> HIDE DEF r
<1>13. /\ \A k \in Jobs \ {j} : Untouched(k)
       /\ job'[j] = r /\ job' = [k \in Jobs |-> job'[k]]
  BY <1>1, OnlyMoves
<1>14. \A k \in Jobs : CreatesNew(k)'
  <2>1. \A b \in Authorities : Creates(j, b)' => b = a /\ ~Pending(j, "insert")'
    BY <1>11, <1>12, <1>13 DEF Creates, At, Pending
  <2>2. keys' = keys /\ Rows \subseteq Rows' BY <1>1, <1>5
  <2> QED BY <1>3, <1>4, <1>5, <1>7, <1>8, <1>13, <2>1, <2>2, CreatesKept
<1>15. \A k \in Jobs : CertifiesNew(k)'
  <2>1. \A c : ~Certifies(j, c)' BY <1>11, <1>12, <1>13 DEF Certifies, Certifying
  <2>2. issuance' = issuance BY <1>1
  <2> QED BY <1>5, <1>13, <2>1, <2>2, CertifiesKept
<1>16. \A k \in Jobs : JobOK(k)'
  <2>1. Sound(job'[j].todo, Rows', Issued(job[j].cert)') BY <1>5, <1>10, <1>12, <1>13
  <2>2. Pending(j, "save")' => job'[j].seen \subseteq Certificates BY <1>11, <1>12, <1>13 DEF Pending
  <2>3. Rows \subseteq Rows' /\ \A c \in Certificates : Issued(c) => Issued(c)' BY <1>5
  <2> QED BY <1>12, <1>13, <1>14, <1>15, <2>1, <2>2, <2>3, JobsKept
<1> QED BY <1>6, <1>13, <1>16, ControlInvNext

-----------------------------------------------------------------------------
\* The whole.

LEMMA PkiStepsKeep ==
  ASSUME ControlInv, NEW j \in Jobs, PkiSteps(j), workspace' = workspace
  PROVE  ControlInv'
BY PutKeyKeeps, InsertAuthorityKeeps, DropKeyKeeps, ClearDefaultsKeeps, CommitStatusKeeps,
   UnapproveKeeps, ListRevokedKeeps, SaveCrlKeeps, RequestIssuanceKeeps, SignCertificateKeeps,
   RecordCertificateKeeps, RecordFailureKeeps, ReadTrustKeeps, TriggerKeeps, WriteBundleKeeps
   DEF PkiSteps

LEMMA AuthorityRequestsKeep ==
  ASSUME ControlInv, NEW j \in Jobs, AuthorityRequests(j, OfPlatform), workspace' = workspace
  PROVE  ControlInv'
<1>1. PICK a \in OfPlatform :
         \/ createManaged(j, a) \/ importExternal(j, a)
         \/ \E to \in {"active", "retiring", "revoked"} : setStatus(j, a, to)
         \/ \E b \in OfPlatform : rotate(j, a, b)
         \/ refreshCrl(j, a) \/ uploadCrl(j, a)
  BY DEF AuthorityRequests
<1>2. CASE \E to \in {"active", "retiring", "revoked"} : setStatus(j, a, to)
  BY <1>2, SetStatusKeeps DEF Settling
<1> QED BY <1>1, <1>2, CreateManagedKeeps, ImportExternalKeeps, RotateKeeps, RefreshCrlKeeps, UploadCrlKeeps

LEMMA CertificateRequestsKeep ==
  ASSUME ControlInv, NEW j \in Jobs, CertificateRequests(j), workspace' = workspace
  PROVE  ControlInv'
BY IssueKeeps, RegisterExternalKeeps, RevokeKeeps DEF CertificateRequests

LEMMA LabStepsKeep ==
  ASSUME ControlInv, NEW j \in Jobs, LabSteps(j)
  PROVE  ControlInv'
BY ReuseKeeps, ResetKeeps, EndKeeps, NoWorkspaceKeeps, ExpireKeeps, ResolveKeeps, ResolveDueKeeps,
   FindTargetKeeps, ReserveKeeps, MakePartKeeps DEF LabSteps

\* The workspaces that are due are workspaces.
LEMMA DueKept ==
  ASSUME due \subseteq Workspaces, [LabNext]_labVars
  PROVE  (due \subseteq Workspaces)'
<1>1. \A j \in Jobs : LabSteps(j) => due' = due
  BY DEF LabSteps, Reuse, Reset, End, NoWorkspace, Expire, Resolve, ResolveDue, FindTarget,
         Refused, Reserve, MakePart, labOnly
<1>2. \A j \in Jobs : Progress(j) => due' = due BY <1>1 DEF Progress, AndLabs
<1>3. AndLabs \/ UNCHANGED labOnly \/ UNCHANGED labVars => due' = due BY DEF AndLabs, labOnly, labVars
<1>4. \A w \in Workspaces : TimePasses(w) => due' = due \cup {w} BY DEF TimePasses
<1> QED BY <1>2, <1>3, <1>4 DEF LabNext

LEMMA ControlInvKept ==
  ASSUME ControlInv, due \subseteq Workspaces, [LabNext]_labVars
  PROVE  ControlInv'
<1>1. UNCHANGED labOnly \/ AndLabs => workspace' = workspace BY DEF labOnly, AndLabs
<1>2. CASE UNCHANGED labVars
  <2>1. lapsed \subseteq Authorities /\ overdue \subseteq Authorities BY ControlInvIs DEF StateOK
  <2>2. UNCHANGED <<rowVars, keys, ageVars, trustVars, job, failures, workspace>>
    BY <1>2 DEF labVars, pkiVars, labOnly
  <2> QED BY <2>1, <2>2, AgesKeep DEF ageVars
<1>3. ASSUME NEW j \in Jobs,
             AuthorityRequests(j, OfPlatform) \/ CertificateRequests(j) \/ LabRequests(j),
             UNCHANGED labOnly
      PROVE  ControlInv'
  BY <1>1, <1>3, AuthorityRequestsKeep, CertificateRequestsKeep, LabRequestsKeep
<1>4. ASSUME NEW j \in Jobs, Progress(j) PROVE ControlInv'
  <2>1. CASE LabSteps(j) BY <2>1, LabStepsKeep
  <2>2. CASE PkiSteps(j) /\ AndLabs BY <1>1, <2>2, PkiStepsKeep
  <2>3. CASE RefuseStep(j, Undo(j)) /\ AndLabs
    <3> PICK undo : undo = Undo(j) OBVIOUS
    <3>1. Undoes(j, undo) BY UndoIs
    <3> QED BY <1>1, <2>3, <3>1, RefuseStepKeeps
  <2> QED BY <1>4, <2>1, <2>2, <2>3 DEF Progress
<1>5. ASSUME NEW j \in Jobs, FailStep(j, Undo(j)), AndLabs PROVE ControlInv'
  <2> PICK undo : undo = Undo(j) OBVIOUS
  <2>1. Undoes(j, undo) BY UndoIs
  <2> QED BY <1>1, <1>5, <2>1, FailStepKeeps
<1>6. ASSUME NEW j \in Jobs, Restart(j), AndLabs PROVE ControlInv'
  BY <1>1, <1>6, RestartKeeps
<1>7. CASE Aging /\ UNCHANGED labOnly BY <1>1, <1>7, AgingKeeps
<1>8. ASSUME NEW w \in Workspaces, TimePasses(w) PROVE ControlInv' BY <1>8, TimePassesKeeps
<1> QED BY <1>2, <1>3, <1>4, <1>5, <1>6, <1>7, <1>8 DEF LabNext

LEMMA ControlInvInit ==
  ASSUME LabInit
  PROVE  ControlInv /\ due \subseteq Workspaces
<1>1. /\ status = [a \in Authorities |-> "none"]
      /\ issuer = {} /\ keys = {}
      /\ crl = [a \in Authorities |-> NoCrl]
      /\ lapsed = {} /\ overdue = {}
      /\ certificate = [c \in Certificates |-> [status |-> "none", by |-> Nobody]]
      /\ issuance = [c \in Certificates |-> "none"]
      /\ files = Empty /\ loaded = Empty
      /\ job = [j \in Jobs |-> Free]
      /\ failures = 0
      /\ workspace = [w \in Workspaces |-> "none"]
      /\ due = {}
  BY DEF LabInit, PkiInit
<1>2. StateOK
  <2>1. LabsOK
    <3>1. CaOf \in [Workspaces -> Authorities \ External] BY LabAssumption
    <3> QED BY <1>1, <3>1 DEF LabsOK, Issued
  <2>2. Empty \in Bundles BY DEF Empty, Bundles
  <2>3. NoCrl \in [known : BOOLEAN, revoked : SUBSET Certificates] BY DEF NoCrl
  <2> QED BY <1>1, <2>1, <2>2, <2>3, PkiAssumption DEF StateOK, AuthorityStatuses
<1>3. ASSUME NEW j \in Jobs PROVE JobOK(j)
  <2>1. job[j] = Free BY <1>1
  <2>2. /\ Free \in JobRecords /\ Named(Free) /\ Free.todo = <<>> BY FreeIs DEF Named
  <2>3. Sound(job[j].todo, Rows, Issued(job[j].cert)) BY <2>1, <2>2, FreeIs, PlainIsSound
  <2>4. CreatesNew(j) /\ CertifiesNew(j) /\ ~Pending(j, "save")
    BY <2>1, <2>2 DEF CreatesNew, CertifiesNew, Creates, Certifies, Pending
  <2> QED BY <2>1, <2>2, <2>3, <2>4 DEF JobOK
<1> QED BY <1>1, <1>2, <1>3, ControlInvIs

LEMMA ControlInvAlways == LabSpec => [](ControlInv /\ due \subseteq Workspaces)
<1>1. LabInit => ControlInv /\ due \subseteq Workspaces BY ControlInvInit
<1>2. ControlInv /\ due \subseteq Workspaces /\ [LabNext]_labVars => (ControlInv /\ due \subseteq Workspaces)'
  BY ControlInvKept, DueKept
<1> QED BY <1>1, <1>2, PTL DEF LabSpec

\* Whatever operations overlap, fail or are cut short, the labs' among them: an
\* authority that has a row has its key, written before and dropped for a row
\* that was not inserted; an issuance is completed with its certificate and
\* failed without (CertificateAuthorityService, CertificateService).
THEOREM IssuersHaveTheirKeys == LabSpec => []IssuersHaveKeys
<1>1. ControlInv => IssuersHaveKeys BY DEF ControlInv
<1> QED BY <1>1, ControlInvAlways, PTL

-----------------------------------------------------------------------------
\* What the steps of a publication, a change of status and a replacement are.

LEMMA FrontTail ==
  ASSUME NEW x \in StepSet, NEW s \in Seq(StepSet), NEW t \in Seq(StepSet)
  PROVE  Front(x, t) \o s = Front(x, t \o s)
<1>1. <<x>> \in Seq(StepSet) OBVIOUS
<1> QED BY <1>1, ConcatAssociative DEF Front

LEMMA PublicationIs ==
  ASSUME NEW s \in Seq(StepSet)
  PROVE  /\ Publication \o s \in Seq(StepSet) /\ Publication \o s # <<>>
         /\ Head(Publication \o s).do = "read"
         /\ Tail(Publication \o s) = Tail(Publication) \o s
         /\ Tail(Publication) \o s \in Seq(StepSet) /\ Tail(Publication) \o s # <<>>
         /\ Head(Tail(Publication) \o s).do = "write"
         /\ Tail(Tail(Publication) \o s) = Tail(Tail(Publication)) \o s
         /\ Tail(Tail(Publication)) \o s \in Seq(StepSet) /\ Tail(Tail(Publication)) \o s # <<>>
         /\ Head(Tail(Tail(Publication)) \o s).do = "trigger"
         /\ Tail(Tail(Tail(Publication)) \o s) = s
<1> DEFINE x == Step("read", Nobody)
           y == Step("write", Nobody)
           z == Step("trigger", Nobody)
<1>1. /\ x \in StepSet /\ x.do = "read" /\ y \in StepSet /\ y.do = "write"
      /\ z \in StepSet /\ z.do = "trigger"
  BY StepOfNobody DEF Deeds
<1>2. Publication = Front(x, Front(y, Front(z, <<>>))) BY PlainSequences
<1> HIDE DEF x, y, z
<1>3. <<>> \in Seq(StepSet) /\ <<>> \o s = s BY EmptySeq, ConcatEmptySeq
<1>4. Front(z, <<>>) \in Seq(StepSet) /\ Front(z, <<>>) \o s = Front(z, s)
  <2>1. Front(z, <<>>) \in Seq(StepSet) BY <1>1, <1>3, FrontIs
  <2>2. Front(z, <<>>) \o s = Front(z, <<>> \o s) BY <1>1, <1>3, FrontTail
  <2> QED BY <1>3, <2>1, <2>2
<1>5. Front(y, Front(z, <<>>)) \in Seq(StepSet) /\ Front(y, Front(z, <<>>)) \o s = Front(y, Front(z, s))
  <2>1. Front(y, Front(z, <<>>)) \in Seq(StepSet) BY <1>1, <1>4, FrontIs
  <2>2. Front(y, Front(z, <<>>)) \o s = Front(y, Front(z, <<>>) \o s) BY <1>1, <1>4, FrontTail
  <2> QED BY <1>4, <2>1, <2>2
<1>6. Publication \o s = Front(x, Front(y, Front(z, s)))
  BY <1>1, <1>2, <1>5, FrontTail
<1>7. /\ Tail(Publication) = Front(y, Front(z, <<>>))
      /\ Tail(Front(y, Front(z, <<>>))) = Front(z, <<>>)
  BY <1>1, <1>2, <1>3, <1>4, <1>5, FrontIs
<1>8. /\ Front(z, s) \in Seq(StepSet) /\ Front(z, s) # <<>>
      /\ Head(Front(z, s)) = z /\ Tail(Front(z, s)) = s
  BY <1>1, FrontIs
<1>9. /\ Front(y, Front(z, s)) \in Seq(StepSet) /\ Front(y, Front(z, s)) # <<>>
      /\ Head(Front(y, Front(z, s))) = y /\ Tail(Front(y, Front(z, s))) = Front(z, s)
  BY <1>1, <1>8, FrontIs
<1>10. /\ Front(x, Front(y, Front(z, s))) \in Seq(StepSet) /\ Front(x, Front(y, Front(z, s))) # <<>>
       /\ Head(Front(x, Front(y, Front(z, s)))) = x
       /\ Tail(Front(x, Front(y, Front(z, s)))) = Front(y, Front(z, s))
  BY <1>1, <1>9, FrontIs
<1> QED BY <1>1, <1>4, <1>5, <1>6, <1>7, <1>8, <1>9, <1>10

LEMMA PublicationAlone ==
  /\ Publication # <<>> /\ Head(Publication).do = "read"
  /\ Tail(Publication) # <<>> /\ Head(Tail(Publication)).do = "write"
  /\ Tail(Tail(Publication)) # <<>> /\ Head(Tail(Tail(Publication))).do = "trigger"
  /\ Tail(Tail(Tail(Publication))) = <<>>
  /\ Publication \in Seq(StepSet)
<1>1. <<>> \in Seq(StepSet) /\ Publication \in Seq(StepSet) BY EmptySeq, PlainSequences DEF Plain
<1>2. Publication \o <<>> = Publication BY <1>1, ConcatEmptySeq
<1>3. Tail(Publication) \in Seq(StepSet) /\ Tail(Publication) \o <<>> = Tail(Publication)
  BY <1>1, PlainSequences, TailIs, ConcatEmptySeq
<1>4. Tail(Publication) # <<>> BY <1>1, <1>3, PublicationIs
<1>5. Tail(Tail(Publication)) \in Seq(StepSet) /\ Tail(Tail(Publication)) \o <<>> = Tail(Tail(Publication))
  BY <1>3, <1>4, TailIs, ConcatEmptySeq
<1> PICK e : e = <<>> OBVIOUS
<1>6. e \in Seq(StepSet) BY <1>1
<1>7. /\ Publication \o e # <<>> /\ Head(Publication \o e).do = "read"
      /\ Tail(Publication) \o e # <<>> /\ Head(Tail(Publication) \o e).do = "write"
      /\ Tail(Tail(Publication)) \o e # <<>> /\ Head(Tail(Tail(Publication)) \o e).do = "trigger"
      /\ Tail(Tail(Tail(Publication)) \o e) = e
  BY <1>6, PublicationIs
<1> QED BY <1>1, <1>2, <1>3, <1>5, <1>7

\* The update to "active" comes after what it clears was read.
LEMMA ActivationIs ==
  ASSUME NEW a \in Authorities, NEW s \in Seq(StepSet)
  PROVE  LET set == SetTo(a, "active") IN
         /\ set \o s \in Seq(StepSet) /\ set \o s # <<>> /\ Head(set \o s) = Step("clear", a)
         /\ Tail(set \o s) = Tail(set) \o s
         /\ Tail(set) \o s \in Seq(StepSet) /\ Tail(set) \o s # <<>>
         /\ Head(Tail(set) \o s) = Step("active", a)
         /\ Tail(Tail(set) \o s) = Publication \o s
<1> DEFINE x == Step("clear", a)
           y == Step("active", a)
           p == Publication
<1>1. x \in StepSet /\ y \in StepSet BY NobodyIs, StepIs DEF Deeds, Settling
<1>2. SetTo(a, "active") = <<x, y>> \o p BY DEF SetTo
<1>3. p \in Seq(StepSet) /\ p \o s \in Seq(StepSet) BY PublicationIs, PlainSequences DEF Plain
<1> HIDE DEF x, y, p
<1>4. SetTo(a, "active") = Front(x, Front(y, p)) BY <1>1, <1>2, <1>3, Pair
<1>5. /\ Front(y, p) \in Seq(StepSet) /\ Front(y, p) \o s = Front(y, p \o s)
      /\ Front(y, p \o s) \in Seq(StepSet) /\ Front(y, p \o s) # <<>>
      /\ Head(Front(y, p \o s)) = y /\ Tail(Front(y, p \o s)) = p \o s
  BY <1>1, <1>3, FrontIs, FrontTail
<1>6. /\ Front(x, Front(y, p)) \o s = Front(x, Front(y, p \o s))
      /\ Tail(Front(x, Front(y, p))) = Front(y, p)
  <2>1. Front(x, Front(y, p)) \o s = Front(x, Front(y, p) \o s) BY <1>1, <1>5, FrontTail
  <2>2. Tail(Front(x, Front(y, p))) = Front(y, p) BY <1>1, <1>5, FrontIs
  <2> QED BY <1>5, <2>1, <2>2
<1>7. /\ Front(x, Front(y, p \o s)) \in Seq(StepSet) /\ Front(x, Front(y, p \o s)) # <<>>
      /\ Head(Front(x, Front(y, p \o s))) = x
      /\ Tail(Front(x, Front(y, p \o s))) = Front(y, p \o s)
  BY <1>1, <1>5, FrontIs
<1> QED BY <1>4, <1>5, <1>6, <1>7 DEF x, y, p

LEMMA StatusChangeIs ==
  ASSUME NEW a \in Authorities, NEW to \in Settling \ {"active"}
  PROVE  /\ SetTo(a, to) \in Seq(StepSet) /\ SetTo(a, to) # <<>>
         /\ Head(SetTo(a, to)) = Step(to, a) /\ Tail(SetTo(a, to)) = Publication
<1> DEFINE x == Step(to, a)
<1>1. x \in StepSet BY NobodyIs, StepIs DEF Deeds
<1>2. Publication \in Seq(StepSet) BY PlainSequences DEF Plain
<1>3. SetTo(a, to) = Front(x, Publication) BY DEF SetTo, Front
<1> HIDE DEF x
<1>4. /\ Front(x, Publication) \in Seq(StepSet) /\ Front(x, Publication) # <<>>
      /\ Head(Front(x, Publication)) = x /\ Tail(Front(x, Publication)) = Publication
  BY <1>1, <1>2, FrontIs
<1> QED BY <1>3, <1>4 DEF x

LEMMA ActivationAlone ==
  ASSUME NEW a \in Authorities
  PROVE  LET set == SetTo(a, "active") IN
         /\ set \in Seq(StepSet) /\ set # <<>> /\ Head(set) = Step("clear", a)
         /\ Tail(set) # <<>> /\ Head(Tail(set)) = Step("active", a) /\ Tail(Tail(set)) = Publication
<1> PICK set : set = SetTo(a, "active") OBVIOUS
<1>1. <<>> \in Seq(StepSet) /\ Publication \o <<>> = Publication
  BY EmptySeq, PublicationAlone, ConcatEmptySeq
<1>2. set \in Seq(StepSet)
  <2>1. "active" \in Settling /\ a \in {a} /\ Issued(Nobody) \in BOOLEAN BY DEF Settling, Issued
  <2>2. Sound(SetTo(a, "active"), {a}, Issued(Nobody)) BY <2>1, SetToAlone
  <2> QED BY <2>2 DEF Sound
<1>3. set \o <<>> = set BY <1>2, ConcatEmptySeq
<1>4. set # <<>> /\ Head(set) = Step("clear", a) BY <1>1, <1>3, ActivationIs
<1>5. Tail(set) \in Seq(StepSet) /\ Tail(set) \o <<>> = Tail(set) BY <1>2, <1>4, TailIs, ConcatEmptySeq
<1>6. /\ Tail(set) # <<>> /\ Head(Tail(set)) = Step("active", a) /\ Tail(Tail(set)) = Publication
  BY <1>1, <1>5, ActivationIs
<1> QED BY <1>2, <1>4, <1>6

LEMMA CreationIs ==
  ASSUME NEW b \in Authorities, NEW s \in Seq(StepSet)
  PROVE  /\ Created(b) \o s # <<>> /\ Head(Created(b) \o s) = Step("put", b)
         /\ Tail(Created(b) \o s) = <<Step("insert", b)>> \o s
         /\ <<Step("insert", b)>> \o s # <<>> /\ Head(<<Step("insert", b)>> \o s) = Step("insert", b)
         /\ Tail(<<Step("insert", b)>> \o s) = s
         /\ Created(b) \o s \in Seq(StepSet) /\ <<Step("insert", b)>> \o s \in Seq(StepSet)
<1> DEFINE x == Step("put", b)
           y == Step("insert", b)
<1>1. x \in StepSet /\ y \in StepSet BY NobodyIs, StepIs DEF Deeds, Creating
<1>2. Created(b) = <<x, y>> BY DEF Created
<1> HIDE DEF x, y
<1>3. <<x, y>> \o s = Front(x, Front(y, s)) /\ <<y>> \o s = Front(y, s) BY <1>1, Pair, Single
<1>4. /\ Front(y, s) \in Seq(StepSet) /\ Front(y, s) # <<>>
      /\ Head(Front(y, s)) = y /\ Tail(Front(y, s)) = s
  BY <1>1, FrontIs
<1>5. /\ Front(x, Front(y, s)) \in Seq(StepSet) /\ Front(x, Front(y, s)) # <<>>
      /\ Head(Front(x, Front(y, s))) = x /\ Tail(Front(x, Front(y, s))) = Front(y, s)
  BY <1>1, <1>4, FrontIs
<1> QED BY <1>2, <1>3, <1>4, <1>5 DEF x, y

LEMMA RevocationIs ==
  ASSUME NEW a \in Authorities
  PROVE  /\ <<Step("unapprove", a)>> \o Refreshed(a) # <<>>
         /\ Head(<<Step("unapprove", a)>> \o Refreshed(a)) = Step("unapprove", a)
         /\ Tail(<<Step("unapprove", a)>> \o Refreshed(a)) = Refreshed(a)
         /\ Refreshed(a) # <<>> /\ Head(Refreshed(a)) = Step("list", a)
         /\ Tail(Refreshed(a)) # <<>> /\ Head(Tail(Refreshed(a))) = Step("save", a)
<1> DEFINE x == Step("unapprove", a)
           y == Step("list", a)
           z == Step("save", a)
<1>1. x \in StepSet /\ y \in StepSet /\ z \in StepSet BY NobodyIs, StepIs DEF Deeds
<1>2. Refreshed(a) = <<y, z>> BY DEF Refreshed
<1> HIDE DEF x, y, z
<1>3. <<y, z>> = Front(y, Front(z, <<>>)) /\ <<>> \in Seq(StepSet) BY <1>1, EmptySeq, Pair
<1>4. /\ Front(z, <<>>) \in Seq(StepSet) /\ Front(z, <<>>) # <<>> /\ Head(Front(z, <<>>)) = z
  BY <1>1, <1>3, FrontIs
<1>5. /\ Front(y, Front(z, <<>>)) \in Seq(StepSet) /\ Front(y, Front(z, <<>>)) # <<>>
      /\ Head(Front(y, Front(z, <<>>))) = y /\ Tail(Front(y, Front(z, <<>>))) = Front(z, <<>>)
  BY <1>1, <1>4, FrontIs
<1>6. <<x>> \o Front(y, Front(z, <<>>)) = Front(x, Front(y, Front(z, <<>>))) BY DEF Front
<1>7. /\ Front(x, Front(y, Front(z, <<>>))) # <<>>
      /\ Head(Front(x, Front(y, Front(z, <<>>)))) = x
      /\ Tail(Front(x, Front(y, Front(z, <<>>)))) = Front(y, Front(z, <<>>))
  BY <1>1, <1>5, FrontIs
<1> QED BY <1>2, <1>3, <1>4, <1>5, <1>6, <1>7 DEF x, y, z

-----------------------------------------------------------------------------
\* What a step of job j may do to the jobs.

LEMMA AdvancedMoves ==
  ASSUME NEW r \in JobRecords, Named(r), r.todo # <<>>
  PROVE  /\ Advanced(r) = Free \/ Advanced(r) = [r EXCEPT !.todo = Tail(@)]
         /\ Tail(r.todo) # <<>> => Advanced(r) = [r EXCEPT !.todo = Tail(@)]
         /\ Tail(r.todo) = <<>> /\ r.left = {} => Advanced(r) = Free
<1> DEFINE t == [r EXCEPT !.todo = Tail(@)]
<1>1. t.todo = Tail(r.todo) /\ t.left = r.left BY DEF JobRecords
<1> HIDE DEF t
<1> QED BY <1>1 DEF Advanced, Settled, t

\* It has the name it had, or none, or it failed.
Keeps(r, q) == q = Free \/ (q.op \in {r.op, "failed"} /\ q.clean = r.clean)

LEMMA AdvancedKeeps ==
  ASSUME NEW r \in JobRecords, Named(r), r.todo # <<>>
  PROVE  Keeps(r, Advanced(r))
<1>1. Advanced(r) = Free \/ Advanced(r) = [r EXCEPT !.todo = Tail(@)] BY AdvancedMoves
<1>2. [r EXCEPT !.todo = Tail(@)].op = r.op /\ [r EXCEPT !.todo = Tail(@)].clean = r.clean
  BY DEF JobRecords
<1> QED BY <1>1, <1>2 DEF Keeps

LEMMA PkiStepMoves ==
  ASSUME ControlInv, NEW j \in Jobs, PkiSteps(j)
  PROVE  /\ ~IsFree(j) /\ Keeps(job[j], job'[j])
         /\ \A k \in Jobs \ {j} : job'[k] = job[k]
<1>1. /\ job[j] \in JobRecords /\ Named(job[j]) /\ job = [k \in Jobs |-> job[k]]
  BY DEF ControlInv, JobOK
<1>2. ASSUME Advance(j), job[j].todo # <<>>
      PROVE  /\ ~IsFree(j) /\ Keeps(job[j], job'[j])
             /\ \A k \in Jobs \ {j} : job'[k] = job[k]
  <2>1. job' = [job EXCEPT ![j] = Advanced(job[j])] BY <1>2 DEF Advance
  <2>2. Keeps(job[j], Advanced(job[j])) BY <1>1, <1>2, AdvancedKeeps
  <2> QED BY <1>1, <1>2, <2>1, <2>2 DEF IsFree
<1>3. ASSUME NEW r, job' = [job EXCEPT ![j] = r], Keeps(job[j], r), ~IsFree(j)
      PROVE  /\ ~IsFree(j) /\ Keeps(job[j], job'[j])
             /\ \A k \in Jobs \ {j} : job'[k] = job[k]
  BY <1>1, <1>3
<1>4. CASE PutKey(j) \/ InsertAuthority(j) \/ DropKey(j) \/ Unapprove(j) \/ RequestIssuance(j)
           \/ SignCertificate(j) \/ RecordCertificate(j) \/ RecordFailure(j) \/ Trigger(j)
  <2>1. Advance(j) /\ job[j].todo # <<>>
    BY <1>4 DEF PutKey, InsertAuthority, DropKey, Unapprove, RequestIssuance, SignCertificate,
       RecordCertificate, RecordFailure, Trigger, Pending
  <2> QED BY <1>2, <2>1
<1>5. CASE ClearDefaults(j) \/ ListRevoked(j) \/ ReadTrust(j)
  <2>1. PICK seen, bundle, left :
           job' = [job EXCEPT ![j].todo = Tail(@), ![j].seen = seen]
           \/ job' = [job EXCEPT ![j].todo = Tail(@), ![j].bundle = bundle, ![j].left = left]
    BY <1>5 DEF ClearDefaults, ListRevoked, ReadTrust
  <2>2. job[j].todo # <<>> BY <1>5 DEF ClearDefaults, ListRevoked, ReadTrust, Pending
  <2>3. CASE job' = [job EXCEPT ![j].todo = Tail(@), ![j].seen = seen]
    <3> DEFINE r == [job[j] EXCEPT !.todo = Tail(@), !.seen = seen]
    <3>1. job' = [job EXCEPT ![j] = r] BY <2>3
    <3>2. r.op = job[j].op /\ r.clean = job[j].clean BY <1>1 DEF JobRecords
    <3> QED BY <1>3, <2>2, <3>1, <3>2 DEF Keeps, IsFree
  <2>4. CASE job' = [job EXCEPT ![j].todo = Tail(@), ![j].bundle = bundle, ![j].left = left]
    <3> DEFINE r == [job[j] EXCEPT !.todo = Tail(@), !.bundle = bundle, !.left = left]
    <3>1. job' = [job EXCEPT ![j] = r] BY <2>4
    <3>2. r.op = job[j].op /\ r.clean = job[j].clean BY <1>1 DEF JobRecords
    <3> QED BY <1>3, <2>2, <3>1, <3>2 DEF Keeps, IsFree
  <2> QED BY <2>1, <2>3, <2>4
<1>6. CASE CommitStatus(j)
  <2> DEFINE q == [job[j] EXCEPT !.seen = {}]
  <2>1. job' = [job EXCEPT ![j] = Advanced(q)] /\ job[j].todo # <<>>
    BY <1>6 DEF CommitStatus, Pending
  <2>2. /\ q \in JobRecords /\ q.op = job[j].op /\ q.clean = job[j].clean
        /\ q.todo = job[j].todo /\ q.left = job[j].left
    BY <1>1 DEF JobRecords
  <2> HIDE DEF q
  <2>3. Keeps(q, Advanced(q)) BY <1>1, <2>1, <2>2, AdvancedKeeps DEF Named
  <2> QED BY <1>3, <2>1, <2>2, <2>3 DEF Keeps, IsFree
<1>7. CASE SaveCrl(j)
  <2> DEFINE q == [job[j] EXCEPT !.seen = {},
                      !.todo = IF status[At(j)] \in {"active", "retiring"} THEN Publication ELSE <<>>]
  <2>1. job' = [job EXCEPT ![j] = Settled(q)] /\ job[j].todo # <<>> BY <1>7 DEF SaveCrl, Pending
  <2>2. q.op = job[j].op /\ q.clean = job[j].clean BY <1>1 DEF JobRecords
  <2> HIDE DEF q
  <2>3. Settled(q) = Free \/ Settled(q) = q BY DEF Settled
  <2> QED BY <1>3, <2>1, <2>2, <2>3 DEF Keeps, IsFree
<1>8. ASSUME NEW file \in {"ca", "crl"}, WriteBundle(j, file)
      PROVE  /\ ~IsFree(j) /\ Keeps(job[j], job'[j])
             /\ \A k \in Jobs \ {j} : job'[k] = job[k]
  <2> DEFINE left == job[j].left \ {file}
             isLast == job[j].todo # <<>> /\ Head(job[j].todo).do = "write" /\ left = {}
             q == [job[j] EXCEPT !.left = left, !.todo = IF isLast THEN Tail(@) ELSE @]
  <2>1. job' = [job EXCEPT ![j] = Settled(q)] /\ file \in job[j].left
    BY <1>8 DEF WriteBundle, Written
  <2>2. q.op = job[j].op /\ q.clean = job[j].clean BY <1>1 DEF JobRecords
  <2> HIDE DEF q
  <2>3. Settled(q) = Free \/ Settled(q) = q BY DEF Settled
  <2> QED BY <1>3, <2>1, <2>2, <2>3 DEF Keeps, IsFree
<1> QED BY <1>4, <1>5, <1>6, <1>7, <1>8 DEF PkiSteps

LEMMA LabStepMoves ==
  ASSUME ControlInv, NEW j \in Jobs, LabSteps(j)
  PROVE  /\ ~IsFree(j) /\ Keeps(job[j], job'[j])
         /\ \A k \in Jobs \ {j} : job'[k] = job[k]
<1>1. /\ job[j] \in JobRecords /\ Named(job[j]) /\ job = [k \in Jobs |-> job[k]]
  BY DEF ControlInv, JobOK
<1>2. job[j].todo # <<>>
  BY DEF LabSteps, Reuse, Reset, End, NoWorkspace, Expire, Resolve, ResolveDue, FindTarget, Refused,
         Reserve, MakePart, Pending
<1>3. ASSUME NEW r, job' = [job EXCEPT ![j] = r], Keeps(job[j], r)
      PROVE  /\ ~IsFree(j) /\ Keeps(job[j], job'[j])
             /\ \A k \in Jobs \ {j} : job'[k] = job[k]
  BY <1>1, <1>2, <1>3 DEF IsFree
<1>4. ASSUME NEW todo PROVE Keeps(job[j], [job[j] EXCEPT !.todo = todo])
  <2>1. [job[j] EXCEPT !.todo = todo].op = job[j].op /\ [job[j] EXCEPT !.todo = todo].clean = job[j].clean
    BY <1>1 DEF JobRecords
  <2> QED BY <2>1 DEF Keeps
<1>5. CASE Reuse(j)
  <2>1. job' = [job EXCEPT ![j] = Free] BY <1>5 DEF Reuse
  <2> QED BY <1>3, <2>1 DEF Keeps
<1>6. ASSUME NEW todo, job' = [job EXCEPT ![j] = Failing(j, todo)]
      PROVE  Keeps(job[j], job'[j]) /\ \A k \in Jobs \ {j} : job'[k] = job[k]
  <2>1. Failing(j, todo).op = "failed" /\ Failing(j, todo).clean = job[j].clean
    BY <1>1 DEF Failing, JobRecords
  <2> QED BY <1>3, <1>6, <2>1 DEF Keeps
<1>7. CASE NoWorkspace(j) \/ Refused(j)
  <2>1. job' = [job EXCEPT ![j] = Failing(j, Undo(j))] BY <1>7 DEF NoWorkspace, Refused
  <2> QED BY <1>2, <1>6, <2>1 DEF IsFree
<1>8. CASE ResolveDue(j)
  <2>1. PICK w : job' = [job EXCEPT ![j] = Failing(j, <<Step("expire", w)>> \o Undo(j))]
    BY <1>8 DEF ResolveDue
  <2> QED BY <1>2, <1>6, <2>1 DEF IsFree
<1>9. CASE Reset(j) \/ End(j) \/ \E w \in Workspaces : Reserve(j, w)
  <2>1. PICK todo : job' = [job EXCEPT ![j].todo = todo]
    <3>1. CASE Reset(j) BY <3>1 DEF Reset
    <3>2. CASE End(j)
      <4>1. job' = [job EXCEPT ![j].todo = Tail(job[j].todo)] BY <3>2 DEF End
      <4> QED BY <4>1
    <3>3. CASE \E w \in Workspaces : Reserve(j, w) BY <3>3 DEF Reserve
    <3> QED BY <1>9, <3>1, <3>2, <3>3
  <2>2. job' = [job EXCEPT ![j] = [job[j] EXCEPT !.todo = todo]] BY <2>1
  <2> QED BY <1>3, <1>4, <2>2
<1>10. CASE Expire(j) \/ FindTarget(j) \/ \E part \in Parts : MakePart(j, part)
  <2>1. job' = [job EXCEPT ![j] = Advanced(job[j])] BY <1>10 DEF Expire, FindTarget, MakePart, Advance
  <2>2. Keeps(job[j], Advanced(job[j])) BY <1>1, <1>2, AdvancedKeeps
  <2> QED BY <1>3, <2>1, <2>2
<1>11. CASE Resolve(j)
  <2>1. PICK w \in Current : job' = [job EXCEPT ![j] = Advanced([job[j] EXCEPT !.home = w])]
    BY <1>11 DEF Resolve
  <2> DEFINE q == [job[j] EXCEPT !.home = w]
  <2>2. /\ q \in JobRecords /\ q.op = job[j].op /\ q.clean = job[j].clean
        /\ q.todo = job[j].todo /\ q.left = job[j].left
    <3>1. w \in Places BY NobodyIs DEF Current
    <3> QED BY <1>1, <3>1 DEF JobRecords
  <2> HIDE DEF q
  <2>3. Keeps(q, Advanced(q)) BY <1>1, <1>2, <2>2, AdvancedKeeps DEF Named
  <2>4. Keeps(job[j], Advanced(q)) BY <2>2, <2>3 DEF Keeps
  <2>5. job' = [job EXCEPT ![j] = Advanced(q)] BY <2>1 DEF q
  <2> QED BY <1>3, <2>4, <2>5
<1> QED BY <1>5, <1>7, <1>8, <1>9, <1>10, <1>11 DEF LabSteps

\* Which step it is, but for the writes of a bundle.
LEMMA WhichStep ==
  ASSUME NEW j, PkiSteps(j) \/ LabSteps(j), \A file \in {"ca", "crl"} : ~WriteBundle(j, file)
  PROVE  /\ job[j].todo # <<>>
         /\ Head(job[j].todo).do # "write"
         /\ Head(job[j].todo).do = "read" => ReadTrust(j)
         /\ Head(job[j].todo).do = "trigger" => Trigger(j)
         /\ Head(job[j].todo).do = "clear" => ClearDefaults(j)
         /\ Head(job[j].todo).do \in Settling => CommitStatus(j)
         /\ Head(job[j].todo).do = "put" => PutKey(j)
         /\ Head(job[j].todo).do = "insert" => InsertAuthority(j)
         /\ Head(job[j].todo).do = "unapprove" => Unapprove(j)
         /\ Head(job[j].todo).do = "list" => ListRevoked(j)
         /\ Head(job[j].todo).do = "save" => SaveCrl(j)
<1> PICK do : do = Head(job[j].todo).do OBVIOUS
<1>1. CASE LabSteps(j)
  <2>1. job[j].todo # <<>> /\ do \in {"reserve", "reset", "end", "abandon", "resolve", "expire", "target"} \cup Parts
    BY <1>1 DEF LabSteps, Reuse, Reset, End, NoWorkspace, Expire, Resolve, ResolveDue, FindTarget,
         Refused, Reserve, MakePart, Pending
  <2> QED BY <2>1 DEF Parts, Settling
<1>2. CASE PkiSteps(j)
  BY <1>2 DEF PkiSteps, PutKey, InsertAuthority, DropKey, ClearDefaults, CommitStatus, Unapprove, ListRevoked,
     SaveCrl, RequestIssuance, SignCertificate, RecordCertificate, RecordFailure, ReadTrust, Trigger,
     Pending, Settling
<1> QED BY <1>1, <1>2

-----------------------------------------------------------------------------
\* What the steps of such an operation are.

\* The job goes on with the same operation.
Goes(j) ==
    /\ job'[j].op = job[j].op /\ job'[j].about = job[j].about /\ job'[j].cert = job[j].cert
    /\ job'[j].todo # <<>>

LEMMA AdvanceIs ==
  ASSUME ControlInv, NEW j \in Jobs, Advance(j), job[j].todo # <<>>, Tail(job[j].todo) # <<>>
  PROVE  /\ Goes(j) /\ job'[j].todo = Tail(job[j].todo)
         /\ job'[j].seen = job[j].seen /\ job'[j].left = job[j].left /\ job'[j].bundle = job[j].bundle
<1>1. /\ job[j] \in JobRecords /\ Named(job[j]) /\ job = [k \in Jobs |-> job[k]]
  BY DEF ControlInv, JobOK
<1>2. Advanced(job[j]) = [job[j] EXCEPT !.todo = Tail(@)] BY <1>1, AdvancedMoves
<1>3. job'[j] = [job[j] EXCEPT !.todo = Tail(@)] BY <1>1, <1>2 DEF Advance
<1> QED BY <1>1, <1>3 DEF JobRecords, Goes

LEMMA WriteIs ==
  ASSUME ControlInv, NEW j \in Jobs, NEW file \in {"ca", "crl"}, WriteBundle(j, file),
         job[j].todo # <<>>, Head(job[j].todo).do = "write" => Tail(job[j].todo) # <<>>
  PROVE  /\ file \in job[j].left
         /\ files' = [files EXCEPT ![file] = job[j].bundle[file]]
         /\ Goes(j)
         /\ job'[j].todo = IF Head(job[j].todo).do = "write" /\ job[j].left \ {file} = {}
                           THEN Tail(job[j].todo) ELSE job[j].todo
         /\ job'[j].left = job[j].left \ {file}
         /\ job'[j].seen = job[j].seen /\ job'[j].bundle = job[j].bundle
         /\ UNCHANGED <<rowVars, keys, ageVars, loaded, failures>>
<1> DEFINE left == job[j].left \ {file}
           isLast == job[j].todo # <<>> /\ Head(job[j].todo).do = "write" /\ left = {}
           q == [job[j] EXCEPT !.left = left, !.todo = IF isLast THEN Tail(@) ELSE @]
<1>1. /\ file \in job[j].left
      /\ files' = [files EXCEPT ![file] = job[j].bundle[file]]
      /\ job' = [job EXCEPT ![j] = Settled(q)]
      /\ UNCHANGED <<rowVars, keys, ageVars, loaded, failures>>
  BY DEF WriteBundle, Written
<1>2. /\ job[j] \in JobRecords /\ Named(job[j]) /\ job = [k \in Jobs |-> job[k]]
  BY DEF ControlInv, JobOK
<1>3. /\ q.left = left /\ q.todo = (IF isLast THEN Tail(job[j].todo) ELSE job[j].todo)
      /\ q.op = job[j].op /\ q.about = job[j].about /\ q.cert = job[j].cert
      /\ q.seen = job[j].seen /\ q.bundle = job[j].bundle
  BY <1>2 DEF JobRecords
<1> HIDE DEF q
<1>4. q.todo # <<>> BY <1>3
<1>5. job'[j] = q BY <1>1, <1>2, <1>4 DEF Settled
<1> QED BY <1>1, <1>3, <1>4, <1>5 DEF Goes

LEMMA BundleKept ==
  ASSUME UNCHANGED rowVars
  PROVE  buildTrustBundle' = buildTrustBundle
BY DEF buildTrustBundle, Trusted, ListOf, rowVars

LEMMA ReadTrustIs ==
  ASSUME ControlInv, NEW j \in Jobs, ReadTrust(j), Tail(job[j].todo) # <<>>
  PROVE  /\ Goes(j) /\ job'[j].todo = Tail(job[j].todo)
         /\ job'[j].left = {"ca", "crl"} /\ job'[j].bundle = buildTrustBundle
         /\ UNCHANGED <<rowVars, keys, ageVars, trustVars, failures>>
<1>1. /\ job[j] \in JobRecords /\ job = [k \in Jobs |-> job[k]]
  BY DEF ControlInv, JobOK
<1> DEFINE r == [job[j] EXCEPT !.todo = Tail(@), !.bundle = buildTrustBundle, !.left = {"ca", "crl"}]
<1>2. job' = [job EXCEPT ![j] = r] /\ UNCHANGED <<rowVars, keys, ageVars, trustVars, failures>>
  BY DEF ReadTrust
<1>3. /\ r.todo = Tail(job[j].todo) /\ r.left = {"ca", "crl"} /\ r.bundle = buildTrustBundle
      /\ r.op = job[j].op /\ r.about = job[j].about /\ r.cert = job[j].cert
  BY <1>1 DEF JobRecords
<1> HIDE DEF r
<1>4. job'[j] = r BY <1>1, <1>2
<1> QED BY <1>2, <1>3, <1>4 DEF Goes

\* A publication goes on, or is over and has taken effect.
LEMMA PublishingKept ==
  ASSUME ControlInv, NEW j \in Jobs, Publishing(j), PkiSteps(j) \/ LabSteps(j)
  PROVE  /\ UNCHANGED <<rowVars, keys>>
         /\ \/ Goes(j) /\ Publishing(j)'
            \/ job'[j] = Free /\ loaded' = buildTrustBundle
<1>1. /\ job[j] \in JobRecords /\ Named(job[j]) /\ job = [k \in Jobs |-> job[k]]
  BY DEF ControlInv, JobOK
<1>2. CASE job[j].todo = Publication
  <2>1. job[j].todo # <<>> /\ Head(job[j].todo).do = "read" /\ Tail(job[j].todo) # <<>>
    BY <1>2, PublicationAlone
  <2>2. CASE ReadTrust(j)
    <3>1. /\ Goes(j) /\ job'[j].todo = Tail(Publication)
          /\ job'[j].left = {"ca", "crl"} /\ job'[j].bundle = buildTrustBundle
          /\ UNCHANGED <<rowVars, keys>>
      BY <1>2, <2>1, <2>2, ReadTrustIs
    <3>2. buildTrustBundle' = buildTrustBundle BY <3>1, BundleKept
    <3> QED BY <3>1, <3>2 DEF Publishing
  <2>3. ASSUME NEW file \in {"ca", "crl"}, WriteBundle(j, file)
        PROVE  UNCHANGED <<rowVars, keys>> /\ Goes(j) /\ Publishing(j)'
    BY <1>2, <2>1, <2>3, WriteIs DEF Publishing
  <2> QED BY <2>1, <2>2, <2>3, WhichStep
<1>3. CASE /\ job[j].todo = Tail(Publication)
           /\ job[j].left # {} /\ job[j].bundle = buildTrustBundle
           /\ "ca" \in job[j].left \/ files.ca = job[j].bundle.ca
           /\ "crl" \in job[j].left \/ files.crl = job[j].bundle.crl
  <2>1. job[j].todo # <<>> /\ Head(job[j].todo).do = "write" /\ Tail(job[j].todo) # <<>>
    BY <1>3, PublicationAlone
  <2>2. PICK file \in {"ca", "crl"} : WriteBundle(j, file) BY <2>1, WhichStep
  <2>3. /\ file \in job[j].left
        /\ files' = [files EXCEPT ![file] = job[j].bundle[file]]
        /\ Goes(j)
        /\ job'[j].todo = IF job[j].left \ {file} = {} THEN Tail(job[j].todo) ELSE job[j].todo
        /\ job'[j].left = job[j].left \ {file} /\ job'[j].bundle = job[j].bundle
        /\ UNCHANGED <<rowVars, keys>>
    BY <2>1, <2>2, WriteIs
  <2>4. files \in Bundles /\ job[j].bundle \in Bundles
    BY <1>1, ControlInvIs DEF StateOK, JobRecords
  <2>5. /\ file = "ca" => files'.ca = job[j].bundle.ca /\ files'.crl = files.crl
        /\ file = "crl" => files'.crl = job[j].bundle.crl /\ files'.ca = files.ca
        /\ files' \in Bundles
    BY <2>3, <2>4 DEF Bundles
  <2>6. buildTrustBundle' = buildTrustBundle BY <2>3, BundleKept
  <2>7. CASE job[j].left \ {file} # {}
    <3>1. /\ "ca" \in job'[j].left \/ files'.ca = job[j].bundle.ca
          /\ "crl" \in job'[j].left \/ files'.crl = job[j].bundle.crl
      BY <1>3, <2>3, <2>5
    <3> QED BY <1>3, <2>3, <2>6, <2>7, <3>1 DEF Publishing
  <2>8. CASE job[j].left \ {file} = {}
    <3>1. files'.ca = job[j].bundle.ca /\ files'.crl = job[j].bundle.crl
      BY <1>3, <2>5, <2>8
    <3>2. files' = job[j].bundle BY <2>4, <2>5, <3>1 DEF Bundles
    <3> QED BY <1>3, <2>3, <2>6, <2>8, <3>2 DEF Publishing
  <2> QED BY <2>7, <2>8
<1>4. CASE job[j].todo = Tail(Tail(Publication)) /\ job[j].left = {} /\ files = buildTrustBundle
  <2>1. job[j].todo # <<>> /\ Head(job[j].todo).do = "trigger" /\ Tail(job[j].todo) = <<>>
    BY <1>4, PublicationAlone
  <2>2. \A file \in {"ca", "crl"} : ~WriteBundle(j, file) BY <1>4 DEF WriteBundle
  <2>3. Trigger(j) BY <2>1, <2>2, WhichStep
  <2>4. Advanced(job[j]) = Free BY <1>1, <1>4, <2>1, AdvancedMoves
  <2>5. job'[j] = Free /\ loaded' = files /\ UNCHANGED <<rowVars, keys>>
    BY <1>1, <2>3, <2>4 DEF Trigger, Advance
  <2> QED BY <1>4, <2>5
<1> QED BY <1>2, <1>3, <1>4 DEF Publishing

-----------------------------------------------------------------------------
\* A change of status.

LEMMA ClearDefaultsIs ==
  ASSUME ControlInv, NEW j \in Jobs, ClearDefaults(j), Tail(job[j].todo) # <<>>
  PROVE  /\ Goes(j) /\ job'[j].todo = Tail(job[j].todo)
         /\ job'[j].seen = IF At(j) \in External THEN {} ELSE IssuersBeside(At(j), issuer)
         /\ UNCHANGED <<rowVars, keys, ageVars, trustVars, failures>>
<1> DEFINE seen == IF At(j) \in External THEN {} ELSE IssuersBeside(At(j), issuer)
           r == [job[j] EXCEPT !.todo = Tail(@), !.seen = seen]
<1>1. /\ job[j] \in JobRecords /\ job = [k \in Jobs |-> job[k]]
  BY DEF ControlInv, JobOK
<1>2. job' = [job EXCEPT ![j] = r] /\ UNCHANGED <<rowVars, keys, ageVars, trustVars, failures>>
  BY DEF ClearDefaults, IssuersBeside
<1>3. /\ r.todo = Tail(job[j].todo) /\ r.seen = seen
      /\ r.op = job[j].op /\ r.about = job[j].about /\ r.cert = job[j].cert
  BY <1>1 DEF JobRecords
<1> HIDE DEF r
<1>4. job'[j] = r BY <1>1, <1>2
<1> QED BY <1>2, <1>3, <1>4 DEF Goes

LEMMA CommitStatusIs ==
  ASSUME ControlInv, NEW j \in Jobs, CommitStatus(j), Tail(job[j].todo) # <<>>
  PROVE  /\ Goes(j) /\ job'[j].todo = Tail(job[j].todo)
         /\ status' = [status EXCEPT ![At(j)] = Head(job[j].todo).do]
         /\ issuer' = IF Head(job[j].todo).do = "active"
                      THEN (issuer \ job[j].seen) \cup ({At(j)} \ External)
                      ELSE issuer \ {At(j)}
<1> DEFINE q == [job[j] EXCEPT !.seen = {}]
           t == [q EXCEPT !.todo = Tail(@)]
<1>1. /\ job[j] \in JobRecords /\ Named(job[j]) /\ job = [k \in Jobs |-> job[k]]
  BY DEF ControlInv, JobOK
<1>2. PICK to \in {"active", "retiring", "revoked"} :
         /\ Pending(j, to)
         /\ status' = [status EXCEPT ![At(j)] = to]
         /\ issuer' = IF to = "active" THEN (issuer \ job[j].seen) \cup ({At(j)} \ External)
                      ELSE issuer \ {At(j)}
  BY DEF CommitStatus
<1>3. job' = [job EXCEPT ![j] = Advanced(q)] BY DEF CommitStatus
<1>4. /\ q \in JobRecords /\ q.op = job[j].op /\ q.about = job[j].about /\ q.cert = job[j].cert
      /\ q.todo = job[j].todo /\ q.left = job[j].left
  BY <1>1 DEF JobRecords
<1> HIDE DEF q
<1>5. Advanced(q) = t BY <1>1, <1>2, <1>4, AdvancedMoves DEF Named, Pending
<1>6. /\ t.todo = Tail(job[j].todo) /\ t.op = job[j].op /\ t.about = job[j].about /\ t.cert = job[j].cert
  BY <1>4 DEF JobRecords
<1> HIDE DEF t
<1>7. job'[j] = t BY <1>1, <1>3, <1>5
<1> QED BY <1>2, <1>6, <1>7 DEF Goes, Pending

LEMMA StatusKept ==
  ASSUME ControlInv, NEW j \in Jobs, job[j].op \in Settling, StatusTakesEffect(j),
         PkiSteps(j) \/ LabSteps(j)
  PROVE  \/ Goes(j) /\ StatusTakesEffect(j)'
         \/ /\ job'[j] = Free /\ loaded' = buildTrustBundle
            /\ status'[job[j].about] = job[j].op
            /\ job[j].op = "active" /\ job[j].about \notin External =>
                  IssuersBeside(job[j].about, issuer') = {job[j].about}
<1> PICK a \in Authorities : a = job[j].about BY DEF StatusTakesEffect
<1> PICK op \in Settling : op = job[j].op OBVIOUS
<1>1. status \in [Authorities -> AuthorityStatuses] /\ issuer \subseteq Authorities
  BY ControlInvIs DEF StateOK
<1>2. ASSUME Goes(j), job'[j].todo = SetTo(a, op) PROVE StatusTakesEffect(j)'
  BY <1>2 DEF Goes, StatusTakesEffect
<1>3. CASE job[j].todo = SetTo(a, op) /\ op = "active"
  <2>1. /\ job[j].todo # <<>> /\ Head(job[j].todo) = Step("clear", a) /\ Tail(job[j].todo) # <<>>
    BY <1>3, ActivationAlone
  <2>2. Head(job[j].todo).do = "clear" /\ At(j) = a BY <2>1 DEF Step, At
  <2>3. ASSUME NEW file \in {"ca", "crl"}, WriteBundle(j, file)
        PROVE  Goes(j) /\ StatusTakesEffect(j)'
    <3>1. Goes(j) /\ job'[j].todo = job[j].todo BY <2>1, <2>2, <2>3, WriteIs
    <3> QED BY <1>2, <1>3, <3>1
  <2>4. CASE ClearDefaults(j)
    <3>1. /\ Goes(j) /\ job'[j].todo = Tail(SetTo(a, op))
          /\ job'[j].seen = IF a \in External THEN {} ELSE IssuersBeside(a, issuer)
          /\ UNCHANGED rowVars
      BY <1>3, <2>1, <2>2, <2>4, ClearDefaultsIs
    <3>2. IssuersBeside(a, issuer') = IssuersBeside(a, issuer) BY <3>1 DEF rowVars
    <3> QED BY <1>3, <3>1, <3>2 DEF Goes, StatusTakesEffect
  <2> QED BY <2>1, <2>2, <2>3, <2>4, WhichStep
<1>4. CASE job[j].todo = SetTo(a, op) /\ op # "active"
  <2>1. /\ job[j].todo # <<>> /\ Head(job[j].todo) = Step(op, a) /\ Tail(job[j].todo) = Publication
    BY <1>4, StatusChangeIs
  <2>2. Head(job[j].todo).do = op /\ At(j) = a /\ Publication # <<>>
    <3>1. Head(job[j].todo).do = op /\ At(j) = a BY <2>1 DEF Step, At
    <3>2. Publication # <<>> BY PublicationAlone
    <3> QED BY <3>1, <3>2
  <2>3. ASSUME NEW file \in {"ca", "crl"}, WriteBundle(j, file)
        PROVE  Goes(j) /\ StatusTakesEffect(j)'
    <3>1. Goes(j) /\ job'[j].todo = job[j].todo BY <2>1, <2>2, <2>3, WriteIs DEF Settling
    <3> QED BY <1>2, <1>4, <3>1
  <2>4. CASE CommitStatus(j)
    <3>1. Goes(j) /\ job'[j].todo = Publication /\ status' = [status EXCEPT ![a] = op]
      BY <2>1, <2>2, <2>4, CommitStatusIs
    <3>2. Publishing(j)' BY <3>1 DEF Publishing
    <3>3. status'[a] = op BY <1>1, <3>1
    <3> QED BY <1>4, <3>1, <3>2, <3>3 DEF Goes, StatusTakesEffect
  <2> QED BY <2>1, <2>2, <2>3, <2>4, WhichStep
<1>5. CASE /\ op = "active" /\ job[j].todo = Tail(SetTo(a, op))
           /\ job[j].seen = IF a \in External THEN {} ELSE IssuersBeside(a, issuer)
  <2>1. /\ job[j].todo # <<>> /\ Head(job[j].todo) = Step("active", a) /\ Tail(job[j].todo) = Publication
    BY <1>5, ActivationAlone
  <2>2. Head(job[j].todo).do = "active" /\ At(j) = a /\ Publication # <<>>
    <3>1. Head(job[j].todo).do = "active" /\ At(j) = a BY <2>1 DEF Step, At
    <3>2. Publication # <<>> BY PublicationAlone
    <3> QED BY <3>1, <3>2
  <2>3. ASSUME NEW file \in {"ca", "crl"}, WriteBundle(j, file)
        PROVE  Goes(j) /\ StatusTakesEffect(j)'
    <3>1. Goes(j) /\ job'[j].todo = job[j].todo /\ job'[j].seen = job[j].seen /\ UNCHANGED rowVars
      BY <2>1, <2>2, <2>3, WriteIs
    <3>2. IssuersBeside(a, issuer') = IssuersBeside(a, issuer) BY <3>1 DEF rowVars
    <3> QED BY <1>5, <3>1, <3>2 DEF Goes, StatusTakesEffect
  <2>4. CASE CommitStatus(j)
    <3>1. /\ Goes(j) /\ job'[j].todo = Publication /\ status' = [status EXCEPT ![a] = op]
          /\ issuer' = (issuer \ job[j].seen) \cup ({a} \ External)
      BY <1>5, <2>1, <2>2, <2>4, CommitStatusIs
    <3>2. Publishing(j)' BY <3>1 DEF Publishing
    <3>3. status'[a] = op BY <1>1, <3>1
    <3>4. a \notin External => IssuersBeside(a, issuer') = {a} BY <1>5, <3>1 DEF IssuersBeside
    <3> QED BY <3>1, <3>2, <3>3, <3>4 DEF Goes, StatusTakesEffect
  <2> QED BY <2>1, <2>2, <2>3, <2>4, WhichStep DEF Settling
<1>6. CASE /\ Publishing(j) /\ status[a] = op
           /\ op = "active" /\ a \notin External => IssuersBeside(a, issuer) = {a}
  <2>1. UNCHANGED <<rowVars, keys>> BY <1>6, PublishingKept
  <2>2. status' = status /\ IssuersBeside(a, issuer') = IssuersBeside(a, issuer) BY <2>1 DEF rowVars
  <2>3. CASE Goes(j) /\ Publishing(j)'
    BY <1>6, <2>2, <2>3 DEF Goes, StatusTakesEffect
  <2>4. CASE job'[j] = Free /\ loaded' = buildTrustBundle BY <1>6, <2>2, <2>4
  <2> QED BY <1>6, <2>3, <2>4, PublishingKept
<1> QED BY <1>3, <1>4, <1>5, <1>6 DEF StatusTakesEffect

-----------------------------------------------------------------------------
\* A replacement.

LEMMA InsertIs ==
  ASSUME ControlInv, NEW j \in Jobs, PutKey(j) \/ InsertAuthority(j) \/ Trigger(j),
         Tail(job[j].todo) # <<>>
  PROVE  /\ Goes(j) /\ job'[j].todo = Tail(job[j].todo)
         /\ Trigger(j) => UNCHANGED rowVars
<1>1. Advance(j) /\ job[j].todo # <<>> BY DEF PutKey, InsertAuthority, Trigger, Pending
<1>2. Trigger(j) => UNCHANGED rowVars BY DEF Trigger
<1> QED BY <1>1, <1>2, AdvanceIs

LEMMA RotationKept ==
  ASSUME ControlInv, NEW j \in Jobs, RotationTakesEffect(j), PkiSteps(j) \/ LabSteps(j)
  PROVE  \/ Goes(j) /\ RotationTakesEffect(j)'
         \/ /\ job'[j] = Free /\ loaded' = buildTrustBundle
            /\ status'[job[j].about] = "retiring"
            /\ \E b \in Trusted \ {job[j].about} : IssuersBeside(job[j].about, issuer') = {b}
<1> PICK a \in Authorities \ External, b \in Authorities \ External : a = job[j].about /\ Replacing(j, a, b)
  BY DEF RotationTakesEffect
<1> PICK second : second = SetTo(a, "retiring") OBVIOUS
<1>1. status \in [Authorities -> AuthorityStatuses] /\ issuer \subseteq Authorities
  BY ControlInvIs DEF StateOK
<1>2. ASSUME Goes(j), Replacing(j, a, b)' PROVE RotationTakesEffect(j)'
  BY <1>2 DEF Goes, RotationTakesEffect
<1>3. /\ second \in Seq(StepSet) /\ second # <<>>
      /\ Head(second) = Step("retiring", a) /\ Tail(second) = Publication
  <2>1. "retiring" \in Settling \ {"active"} BY DEF Settling
  <2> QED BY <2>1, StatusChangeIs
<1>4. b # a /\ HomeOf[b] = HomeOf[a] BY DEF Replacing
<1>21. second \in Seq(StepSet) /\ b \in Authorities BY <1>3
<1> DEFINE first == SetTo(b, "active") \o second
<1>5. /\ first \in Seq(StepSet) /\ first # <<>> /\ Head(first) = Step("clear", b)
      /\ Tail(first) = Tail(SetTo(b, "active")) \o second
      /\ Tail(first) # <<>> /\ Head(Tail(first)) = Step("active", b)
      /\ Tail(Tail(first)) = Publication \o second
  <2>1. /\ SetTo(b, "active") \o second \in Seq(StepSet) /\ SetTo(b, "active") \o second # <<>>
        /\ Head(SetTo(b, "active") \o second) = Step("clear", b)
        /\ Tail(SetTo(b, "active") \o second) = Tail(SetTo(b, "active")) \o second
    BY <1>21, ActivationIs
  <2>2. /\ Tail(SetTo(b, "active")) \o second # <<>>
        /\ Head(Tail(SetTo(b, "active")) \o second) = Step("active", b)
        /\ Tail(Tail(SetTo(b, "active")) \o second) = Publication \o second
    BY <1>21, ActivationIs
  <2> QED BY <2>1, <2>2
<1>6. /\ Publication \o second # <<>> /\ Head(Publication \o second).do = "read"
      /\ Tail(Publication \o second) = Tail(Publication) \o second
      /\ Tail(Publication) \o second # <<>> /\ Head(Tail(Publication) \o second).do = "write"
      /\ Tail(Tail(Publication) \o second) = Tail(Tail(Publication)) \o second
      /\ Tail(Tail(Publication)) \o second # <<>>
      /\ Head(Tail(Tail(Publication)) \o second).do = "trigger"
      /\ Tail(Tail(Tail(Publication)) \o second) = second
  BY <1>21, PublicationIs
<1>22. first \in Seq(StepSet) BY <1>5
<1> HIDE DEF first
<1>7. CASE job[j].todo = Created(b) \o first \/ job[j].todo = <<Step("insert", b)>> \o first
  <2>1. /\ job[j].todo # <<>> /\ Tail(job[j].todo) \in {<<Step("insert", b)>> \o first, first}
        /\ Head(job[j].todo) \in {Step("put", b), Step("insert", b)} /\ Tail(job[j].todo) # <<>>
    <3>1. /\ Created(b) \o first # <<>> /\ Head(Created(b) \o first) = Step("put", b)
          /\ Tail(Created(b) \o first) = <<Step("insert", b)>> \o first
          /\ <<Step("insert", b)>> \o first # <<>>
          /\ Head(<<Step("insert", b)>> \o first) = Step("insert", b)
          /\ Tail(<<Step("insert", b)>> \o first) = first
      BY <1>21, <1>22, CreationIs
    <3> QED BY <1>5, <1>7, <3>1
  <2>2. Head(job[j].todo).do \in {"put", "insert"} BY <2>1 DEF Step
  <2>3. ASSUME NEW file \in {"ca", "crl"}, WriteBundle(j, file)
        PROVE  Goes(j) /\ Replacing(j, a, b)'
    <3>1. Goes(j) /\ job'[j].todo = job[j].todo BY <2>1, <2>2, <2>3, WriteIs
    <3> QED BY <1>4, <1>7, <3>1 DEF Replacing, first
  <2>4. CASE PutKey(j) \/ InsertAuthority(j)
    <3>1. Goes(j) /\ job'[j].todo = Tail(job[j].todo) BY <2>1, <2>4, InsertIs
    <3> QED BY <1>2, <1>4, <2>1, <3>1 DEF Replacing, first
  <2> QED BY <1>2, <2>1, <2>2, <2>3, <2>4, WhichStep
<1>8. CASE job[j].todo = first
  <2>1. job[j].todo # <<>> /\ Tail(job[j].todo) # <<>> BY <1>5, <1>8
  <2>2. Head(job[j].todo).do = "clear" /\ At(j) = b BY <1>5, <1>8 DEF Step, At
  <2>3. ASSUME NEW file \in {"ca", "crl"}, WriteBundle(j, file)
        PROVE  Goes(j) /\ Replacing(j, a, b)'
    <3>1. Goes(j) /\ job'[j].todo = job[j].todo BY <2>1, <2>2, <2>3, WriteIs
    <3> QED BY <1>4, <1>8, <3>1 DEF Replacing, first
  <2>4. CASE ClearDefaults(j)
    <3>1. /\ Goes(j) /\ job'[j].todo = Tail(first) /\ job'[j].seen = IssuersBeside(b, issuer)
          /\ UNCHANGED rowVars
      BY <1>8, <2>1, <2>2, <2>4, ClearDefaultsIs
    <3>2. IssuersBeside(b, issuer') = IssuersBeside(b, issuer) BY <3>1 DEF rowVars
    <3>3. Replacing(j, a, b)' BY <1>4, <1>5, <3>1, <3>2 DEF Replacing
    <3> QED BY <1>2, <3>1, <3>3
  <2> QED BY <1>2, <2>1, <2>2, <2>3, <2>4, WhichStep
<1>9. CASE job[j].todo = Tail(first) /\ job[j].seen = IssuersBeside(b, issuer)
  <2>1. job[j].todo # <<>> /\ Tail(job[j].todo) = Publication \o second /\ Tail(job[j].todo) # <<>>
    BY <1>5, <1>6, <1>9
  <2>2. Head(job[j].todo).do = "active" /\ At(j) = b BY <1>5, <1>9 DEF Step, At
  <2>3. ASSUME NEW file \in {"ca", "crl"}, WriteBundle(j, file)
        PROVE  Goes(j) /\ Replacing(j, a, b)'
    <3>1. Goes(j) /\ job'[j].todo = job[j].todo /\ job'[j].seen = job[j].seen /\ UNCHANGED rowVars
      BY <2>1, <2>2, <2>3, WriteIs
    <3>2. IssuersBeside(b, issuer') = IssuersBeside(b, issuer) BY <3>1 DEF rowVars
    <3> QED BY <1>4, <1>5, <1>9, <3>1, <3>2 DEF Replacing
  <2>4. CASE CommitStatus(j)
    <3>1. /\ Goes(j) /\ job'[j].todo = Publication \o second /\ status' = [status EXCEPT ![b] = "active"]
          /\ issuer' = (issuer \ job[j].seen) \cup ({b} \ External)
      BY <2>1, <2>2, <2>4, CommitStatusIs
    <3>2. status'[b] = "active" BY <1>1, <3>1
    <3>3. IssuersBeside(b, issuer') = {b} BY <1>9, <3>1 DEF IssuersBeside
    <3>4. Replacing(j, a, b)' BY <1>4, <3>1, <3>2, <3>3 DEF Replacing
    <3> QED BY <1>2, <3>1, <3>4
  <2> QED BY <1>2, <2>1, <2>2, <2>3, <2>4, WhichStep DEF Settling
<1> DEFINE Replaced == status[b] = "active" /\ IssuersBeside(b, issuer) = {b}
<1>10. ASSUME Replaced, Goes(j), UNCHANGED rowVars,
              job'[j].todo \in {Publication \o second, Tail(Publication) \o second,
                                Tail(Tail(Publication)) \o second, second}
       PROVE  Goes(j) /\ RotationTakesEffect(j)'
  <2>1. status'[b] = "active" /\ IssuersBeside(b, issuer') = {b} BY <1>10 DEF rowVars
  <2>2. Replacing(j, a, b)' BY <1>4, <1>10, <2>1 DEF Replacing
  <2> QED BY <1>2, <1>10, <2>2
<1>11. CASE Replaced /\ job[j].todo \in {Publication \o second, Tail(Publication) \o second,
                                         Tail(Tail(Publication)) \o second}
  <2>1. /\ job[j].todo # <<>> /\ Tail(job[j].todo) # <<>>
        /\ Tail(job[j].todo) \in {Tail(Publication) \o second, Tail(Tail(Publication)) \o second, second}
        /\ Head(job[j].todo).do \in {"read", "write", "trigger"}
    BY <1>3, <1>6, <1>11
  <2>2. ASSUME NEW file \in {"ca", "crl"}, WriteBundle(j, file)
        PROVE  Goes(j) /\ RotationTakesEffect(j)'
    <3>1. Goes(j) /\ job'[j].todo \in {Tail(job[j].todo), job[j].todo} /\ UNCHANGED rowVars
      BY <2>1, <2>2, WriteIs
    <3> QED BY <1>10, <1>11, <2>1, <3>1
  <2>3. CASE ReadTrust(j)
    <3>1. Goes(j) /\ job'[j].todo = Tail(job[j].todo) /\ UNCHANGED rowVars BY <2>1, <2>3, ReadTrustIs
    <3> QED BY <1>10, <1>11, <2>1, <3>1
  <2>4. CASE Trigger(j)
    <3>1. Goes(j) /\ job'[j].todo = Tail(job[j].todo) /\ UNCHANGED rowVars BY <2>1, <2>4, InsertIs
    <3> QED BY <1>10, <1>11, <2>1, <3>1
  <2> QED BY <2>1, <2>2, <2>3, <2>4, WhichStep
<1>12. CASE Replaced /\ job[j].todo = second
  <2>1. job[j].todo # <<>> /\ Tail(job[j].todo) = Publication BY <1>3, <1>12
  <2>2. Head(job[j].todo).do = "retiring" /\ At(j) = a BY <1>3, <1>12 DEF Step, At
  <2>3. Publication # <<>> BY PublicationAlone
  <2>4. ASSUME NEW file \in {"ca", "crl"}, WriteBundle(j, file)
        PROVE  Goes(j) /\ RotationTakesEffect(j)'
    <3>1. Goes(j) /\ job'[j].todo = job[j].todo /\ UNCHANGED rowVars BY <2>1, <2>2, <2>4, WriteIs
    <3> QED BY <1>10, <1>12, <3>1
  <2>5. CASE CommitStatus(j)
    <3>1. /\ Goes(j) /\ job'[j].todo = Publication /\ status' = [status EXCEPT ![a] = "retiring"]
          /\ issuer' = issuer \ {a}
      BY <2>1, <2>2, <2>3, <2>5, CommitStatusIs
    <3>2. status'[b] = "active" /\ status'[a] = "retiring" BY <1>1, <1>4, <1>12, <3>1
    <3>3. IssuersBeside(b, issuer') = {b} BY <1>4, <1>12, <3>1 DEF IssuersBeside
    <3>4. Publishing(j)' BY <3>1 DEF Publishing
    <3>5. Replacing(j, a, b)' BY <1>4, <3>2, <3>3, <3>4 DEF Replacing
    <3> QED BY <1>2, <3>1, <3>5
  <2> QED BY <2>1, <2>2, <2>4, <2>5, WhichStep DEF Settling
<1>13. CASE Replaced /\ status[a] = "retiring" /\ Publishing(j)
  <2>1. UNCHANGED <<rowVars, keys>> BY <1>13, PublishingKept
  <2>2. status' = status /\ issuer' = issuer BY <2>1 DEF rowVars
  <2>3. CASE Goes(j) /\ Publishing(j)'
    <3>1. status'[b] = "active" /\ status'[a] = "retiring" /\ IssuersBeside(b, issuer') = {b}
      BY <1>13, <2>2
    <3>2. Replacing(j, a, b)' BY <1>4, <2>3, <3>1 DEF Replacing
    <3> QED BY <1>2, <2>3, <3>2
  <2>4. CASE job'[j] = Free /\ loaded' = buildTrustBundle
    <3>1. b \in Trusted \ {a} BY <1>4, <1>13 DEF Trusted
    <3>2. IssuersBeside(a, issuer') = {b} BY <1>4, <1>13, <2>2 DEF IssuersBeside
    <3> QED BY <1>13, <2>2, <2>4, <3>1, <3>2
  <2> QED BY <1>13, <2>3, <2>4, PublishingKept
<1> QED BY <1>5, <1>7, <1>8, <1>9, <1>11, <1>12, <1>13 DEF Replacing, first

-----------------------------------------------------------------------------
\* A revocation.

LEMMA RefreshedListIs ==
  ASSUME ControlInv, NEW j \in Jobs, ListRevoked(j), Tail(job[j].todo) # <<>>
  PROVE  /\ Goes(j) /\ job'[j].todo = Tail(job[j].todo) /\ job'[j].left = job[j].left
         /\ At(j) \notin External =>
               \A c \in Certificates :
                  certificate[c].status = "revoked" /\ certificate[c].by = At(j) => c \in job'[j].seen
         /\ UNCHANGED rowVars
<1> PICK seen : /\ job' = [job EXCEPT ![j].todo = Tail(@), ![j].seen = seen]
                /\ At(j) \notin External =>
                      seen = {c \in Certificates : certificate[c].status = "revoked"
                                                   /\ certificate[c].by = At(j)}
  BY DEF ListRevoked
<1> DEFINE r == [job[j] EXCEPT !.todo = Tail(@), !.seen = seen]
<1>1. /\ job[j] \in JobRecords /\ job = [k \in Jobs |-> job[k]]
  BY DEF ControlInv, JobOK
<1>2. job' = [job EXCEPT ![j] = r] /\ UNCHANGED rowVars BY DEF ListRevoked
<1>3. /\ r.todo = Tail(job[j].todo) /\ r.seen = seen /\ r.left = job[j].left
      /\ r.op = job[j].op /\ r.about = job[j].about /\ r.cert = job[j].cert
  BY <1>1 DEF JobRecords
<1> HIDE DEF r
<1>4. job'[j] = r BY <1>1, <1>2
<1> QED BY <1>2, <1>3, <1>4 DEF Goes

LEMMA SaveCrlIs ==
  ASSUME ControlInv, NEW j \in Jobs, SaveCrl(j), job[j].left = {}, At(j) \in Authorities
  PROVE  /\ crl' = [crl EXCEPT ![At(j)] = [known |-> TRUE, revoked |-> job[j].seen]]
         /\ status' = status /\ certificate' = certificate
         /\ IF At(j) \in Trusted THEN Goes(j) /\ job'[j].todo = Publication ELSE job'[j] = Free
<1> DEFINE todo == IF status[At(j)] \in {"active", "retiring"} THEN Publication ELSE <<>>
           q == [job[j] EXCEPT !.seen = {}, !.todo = todo]
<1>1. /\ job[j] \in JobRecords /\ job = [k \in Jobs |-> job[k]]
  BY DEF ControlInv, JobOK
<1>2. /\ job' = [job EXCEPT ![j] = Settled(q)]
      /\ crl' = [crl EXCEPT ![At(j)] = [known |-> TRUE, revoked |-> job[j].seen]]
      /\ status' = status /\ certificate' = certificate
  BY DEF SaveCrl
<1>3. /\ q.todo = todo /\ q.left = {}
      /\ q.op = job[j].op /\ q.about = job[j].about /\ q.cert = job[j].cert
  BY <1>1 DEF JobRecords
<1> HIDE DEF q
<1>4. job'[j] = Settled(q) BY <1>1, <1>2
<1>5. Publication # <<>> BY PublicationAlone
<1>6. CASE At(j) \in Trusted
  <2>1. todo = Publication BY <1>6 DEF Trusted
  <2>2. Settled(q) = q BY <1>3, <1>5, <2>1 DEF Settled
  <2> QED BY <1>2, <1>3, <1>4, <1>5, <1>6, <2>1, <2>2 DEF Goes
<1>7. CASE At(j) \notin Trusted
  <2>1. todo = <<>> BY <1>7 DEF Trusted
  <2>2. Settled(q) = Free BY <1>3, <2>1 DEF Settled
  <2> QED BY <1>2, <1>4, <1>7, <2>2
<1> QED BY <1>6, <1>7

LEMMA RevocationKept ==
  ASSUME ControlInv, NEW j \in Jobs, RevocationTakesEffect(j), PkiSteps(j) \/ LabSteps(j)
  PROVE  \/ Goes(j) /\ RevocationTakesEffect(j)'
         \/ /\ job'[j] = Free
            /\ job[j].about \notin External =>
                  /\ job[j].cert \in crl'[job[j].about].revoked
                  /\ job[j].about \in Trusted =>
                        <<job[j].about, crl'[job[j].about].revoked>> \in loaded'.crl
<1> PICK a, c : a = job[j].about /\ c = job[j].cert OBVIOUS
<1>1. c \in Certificates /\ certificate[c].status # "none" /\ certificate[c].by = a
  BY DEF RevocationTakesEffect
<1>2. /\ certificate \in [Certificates ->
            [status : {"none", "approved", "revoked"}, by : Authorities \cup {Nobody}]]
      /\ crl \in [Authorities -> [known : BOOLEAN, revoked : SUBSET Certificates]]
      /\ a \in Authorities
  <2>1. StateOK BY ControlInvIs
  <2> QED BY <1>1, <2>1 DEF StateOK, LabsOK, Issued
<1> DEFINE Begun == job[j].todo = <<Step("unapprove", a)>> \o Refreshed(a) /\ job[j].left = {}
           Unapproved == /\ job[j].todo = Refreshed(a) /\ job[j].left = {}
                         /\ certificate[c].status = "revoked"
           Listed == /\ job[j].todo = Tail(Refreshed(a)) /\ job[j].left = {}
                     /\ a \notin External => c \in job[j].seen
           Saved == Publishing(j) /\ (a \notin External => c \in crl[a].revoked /\ crl[a].known)
<1>3. ASSUME Goes(j), certificate'[c].status # "none", certificate'[c].by = a,
             Begun' \/ Unapproved' \/ Listed' \/ Saved'
      PROVE  RevocationTakesEffect(j)'
  BY <1>1, <1>3 DEF Goes, RevocationTakesEffect
<1>4. CASE Begun
  <2>1. /\ job[j].todo # <<>> /\ Head(job[j].todo) = Step("unapprove", a)
        /\ Tail(job[j].todo) = Refreshed(a) /\ Refreshed(a) # <<>>
    BY <1>2, <1>4, RevocationIs
  <2>2. Head(job[j].todo).do = "unapprove" BY <2>1 DEF Step
  <2>3. \A file \in {"ca", "crl"} : ~WriteBundle(j, file) BY <1>4 DEF WriteBundle
  <2>4. Unapprove(j) BY <2>1, <2>2, <2>3, WhichStep
  <2>5. Goes(j) /\ job'[j].todo = Refreshed(a) /\ job'[j].left = {}
    BY <1>4, <2>1, <2>4, AdvanceIs DEF Unapprove
  <2>6. certificate'[c].status = "revoked" /\ certificate'[c].by = a
    BY <1>1, <1>2, <2>4 DEF Unapprove
  <2> QED BY <1>3, <2>5, <2>6
<1>5. CASE Unapproved
  <2>1. job[j].todo # <<>> /\ Head(job[j].todo) = Step("list", a) /\ Tail(Refreshed(a)) # <<>>
    BY <1>2, <1>5, RevocationIs
  <2>2. Head(job[j].todo).do = "list" /\ At(j) = a BY <2>1 DEF Step, At
  <2>3. \A file \in {"ca", "crl"} : ~WriteBundle(j, file) BY <1>5 DEF WriteBundle
  <2>4. ListRevoked(j) BY <2>1, <2>2, <2>3, WhichStep
  <2>5. /\ Goes(j) /\ job'[j].todo = Tail(Refreshed(a)) /\ job'[j].left = {}
        /\ a \notin External => c \in job'[j].seen
        /\ UNCHANGED rowVars
    BY <1>1, <1>5, <2>1, <2>2, <2>4, RefreshedListIs
  <2> QED BY <1>1, <1>3, <2>5 DEF rowVars
<1>6. CASE Listed
  <2>1. job[j].todo # <<>> /\ Head(job[j].todo) = Step("save", a)
    BY <1>2, <1>6, RevocationIs
  <2>2. Head(job[j].todo).do = "save" /\ At(j) = a BY <2>1 DEF Step, At
  <2>3. \A file \in {"ca", "crl"} : ~WriteBundle(j, file) BY <1>6 DEF WriteBundle
  <2>4. SaveCrl(j) BY <2>1, <2>2, <2>3, WhichStep
  <2>5. /\ crl' = [crl EXCEPT ![a] = [known |-> TRUE, revoked |-> job[j].seen]]
        /\ certificate' = certificate
        /\ IF a \in Trusted THEN Goes(j) /\ job'[j].todo = Publication ELSE job'[j] = Free
    BY <1>2, <1>6, <2>2, <2>4, SaveCrlIs
  <2>6. crl'[a].known /\ crl'[a].revoked = job[j].seen BY <1>2, <2>5
  <2>7. CASE a \in Trusted
    <3>1. Publishing(j)' BY <2>5, <2>7 DEF Publishing
    <3> QED BY <1>1, <1>3, <1>6, <2>5, <2>6, <2>7, <3>1
  <2> QED BY <1>6, <2>5, <2>6, <2>7
<1>7. CASE Saved
  <2>1. crl' = crl /\ certificate' = certificate BY <1>7, PublishingKept DEF rowVars
  <2>2. CASE Goes(j) /\ Publishing(j)' BY <1>1, <1>3, <1>7, <2>1, <2>2
  <2>3. CASE job'[j] = Free /\ loaded' = buildTrustBundle
    <3>1. ASSUME a \notin External, a \in Trusted PROVE <<a, crl[a].revoked>> \in loaded'.crl
      <4>1. <<a, crl[a].revoked>> \in ListOf(a) BY <1>7, <3>1 DEF ListOf
      <4> QED BY <2>3, <3>1, <4>1 DEF buildTrustBundle
    <3> QED BY <1>7, <2>1, <2>3, <3>1
  <2> QED BY <1>7, <2>2, <2>3, PublishingKept
<1> QED BY <1>4, <1>5, <1>6, <1>7 DEF RevocationTakesEffect

-----------------------------------------------------------------------------
\* The whole.

\* What OperationsTakeEffect says of an operation that is over.
TookEffect(j) ==
    LET r == job[j]
        a == r.about
    IN /\ r.op \in {"active", "retiring", "revoked", "rotate", "boot"} => loaded' = buildTrustBundle
       /\ r.op \in {"active", "retiring", "revoked"} => status'[a] = r.op
       /\ r.op = "active" /\ a \notin External => IssuersBeside(a, issuer') = {a}
       /\ r.op = "rotate" =>
             /\ status'[a] = "retiring"
             /\ \E b \in Trusted \ {a} : IssuersBeside(a, issuer') = {b}
       /\ r.op = "revokeCertificate" /\ a \notin External =>
             /\ r.cert \in crl'[a].revoked
             /\ a \in Trusted => <<a, crl'[a].revoked>> \in loaded'.crl

Watched == Settling \cup {"boot", "rotate", "revokeCertificate"}

\* An operation with something to promise has something to do.
LEMMA WatchedWorks ==
  ASSUME ControlInv, NEW j \in Jobs, TakesEffect(j), job[j].clean, job[j] # Free, job[j].op \in Watched
  PROVE  job[j].todo # <<>>
<1> PICK op : op = job[j].op OBVIOUS
<1>1. Publishing(j) => job[j].todo # <<>> BY PublicationAlone DEF Publishing
<1>2. CASE op \in Settling
  <2> PICK a \in Authorities : a = job[j].about BY <1>2 DEF TakesEffect, StatusTakesEffect
  <2>1. \/ job[j].todo = SetTo(a, op)
        \/ op = "active" /\ job[j].todo = Tail(SetTo(a, op))
        \/ Publishing(j)
    <3>1. StatusTakesEffect(j) BY <1>2 DEF TakesEffect
    <3> QED BY <3>1 DEF StatusTakesEffect
  <2>2. op = "active" => SetTo(a, op) # <<>> /\ Tail(SetTo(a, op)) # <<>> BY ActivationAlone
  <2>3. op # "active" => SetTo(a, op) # <<>> BY <1>2, StatusChangeIs
  <2> QED BY <1>1, <2>1, <2>2, <2>3
<1>3. CASE op = "boot" BY <1>1, <1>3 DEF TakesEffect
<1>4. CASE op = "rotate"
  <2>1. PICK a \in Authorities \ External, b \in Authorities \ External : Replacing(j, a, b)
    BY <1>4 DEF TakesEffect, RotationTakesEffect
  <2> PICK second : second = SetTo(a, "retiring") OBVIOUS
  <2>2. second \in Seq(StepSet) /\ second # <<>>
    <3>1. "retiring" \in Settling \ {"active"} BY DEF Settling
    <3> QED BY <2>1, <3>1, StatusChangeIs
  <2> PICK first : first = SetTo(b, "active") \o second OBVIOUS
  <2>3. first \in Seq(StepSet) /\ first # <<>> /\ Tail(SetTo(b, "active")) \o second # <<>>
    <3>1. b \in Authorities BY <2>1
    <3> QED BY <2>2, <3>1, ActivationIs
  <2>4. Created(b) \o first # <<>> /\ <<Step("insert", b)>> \o first # <<>>
    <3>1. b \in Authorities BY <2>1
    <3> QED BY <2>3, <3>1, CreationIs
  <2>5. /\ Publication \o second # <<>> /\ Tail(Publication) \o second # <<>>
        /\ Tail(Tail(Publication)) \o second # <<>>
    BY <2>2, PublicationIs
  <2> QED BY <1>1, <2>1, <2>2, <2>3, <2>4, <2>5 DEF Replacing
<1>5. CASE op = "revokeCertificate"
  <2> PICK a : a = job[j].about OBVIOUS
  <2>1. a \in Authorities
    <3>1. RevocationTakesEffect(j) BY <1>5 DEF TakesEffect
    <3>2. StateOK BY ControlInvIs
    <3> QED BY <3>1, <3>2 DEF RevocationTakesEffect, StateOK, LabsOK, Issued
  <2>2. /\ <<Step("unapprove", a)>> \o Refreshed(a) # <<>>
        /\ Refreshed(a) # <<>> /\ Tail(Refreshed(a)) # <<>>
    BY <2>1, RevocationIs
  <2> QED BY <1>1, <1>5, <2>2 DEF TakesEffect, RevocationTakesEffect
<1> QED BY <1>2, <1>3, <1>4, <1>5 DEF Watched

\* A step of an operation that nothing overlaps.
LEMMA EffectKept ==
  ASSUME ControlInv, NEW j \in Jobs, TakesEffect(j), job[j].clean, job[j] # Free,
         PkiSteps(j) \/ LabSteps(j)
  PROVE  TakesEffect(j)' /\ (job'[j] = Free => TookEffect(j))
<1> PICK op : op = job[j].op OBVIOUS
<1>1. Keeps(job[j], job'[j]) /\ \A k \in Jobs \ {j} : job'[k] = job[k]
  BY PkiStepMoves, LabStepMoves
<1>2. \A k \in Jobs \ {j} : IsFree(k)' BY <1>1 DEF TakesEffect, IsFree
<1>3. ASSUME Goes(j),
             op \in Settling => StatusTakesEffect(j)',
             op = "boot" => Publishing(j)',
             op = "rotate" => RotationTakesEffect(j)',
             op = "revokeCertificate" => RevocationTakesEffect(j)'
      PROVE  TakesEffect(j)' /\ (job'[j] = Free => TookEffect(j))
  <2>1. job'[j].op = op /\ job'[j] # Free BY <1>3 DEF Goes, Free
  <2> QED BY <1>2, <1>3, <2>1 DEF TakesEffect
<1>4. job'[j] = Free => TakesEffect(j)' BY DEF TakesEffect, Free
<1>5. CASE op \in Settling
  <2>1. op \notin {"boot", "rotate", "revokeCertificate"} BY <1>5 DEF Settling
  <2>2. StatusTakesEffect(j) BY <1>5 DEF TakesEffect
  <2>3. CASE Goes(j) /\ StatusTakesEffect(j)' BY <1>3, <2>1, <2>3
  <2>4. CASE /\ job'[j] = Free /\ loaded' = buildTrustBundle
             /\ status'[job[j].about] = op
             /\ op = "active" /\ job[j].about \notin External =>
                   IssuersBeside(job[j].about, issuer') = {job[j].about}
    BY <1>4, <2>1, <2>4 DEF TookEffect
  <2> QED BY <1>5, <2>2, <2>3, <2>4, StatusKept
<1>6. CASE op = "boot"
  <2>1. Publishing(j) BY <1>6 DEF TakesEffect
  <2>2. CASE Goes(j) /\ Publishing(j)' BY <1>3, <1>6, <2>2 DEF Settling
  <2>3. CASE job'[j] = Free /\ loaded' = buildTrustBundle BY <1>4, <1>6, <2>3 DEF TookEffect
  <2> QED BY <2>1, <2>2, <2>3, PublishingKept
<1>7. CASE op = "rotate"
  <2>1. RotationTakesEffect(j) BY <1>7 DEF TakesEffect
  <2>2. CASE Goes(j) /\ RotationTakesEffect(j)' BY <1>3, <1>7, <2>2 DEF Settling
  <2>3. CASE /\ job'[j] = Free /\ loaded' = buildTrustBundle
             /\ status'[job[j].about] = "retiring"
             /\ \E b \in Trusted \ {job[j].about} : IssuersBeside(job[j].about, issuer') = {b}
    BY <1>4, <1>7, <2>3 DEF TookEffect
  <2> QED BY <2>1, <2>2, <2>3, RotationKept
<1>8. CASE op = "revokeCertificate"
  <2>1. RevocationTakesEffect(j) BY <1>8 DEF TakesEffect
  <2>2. CASE Goes(j) /\ RevocationTakesEffect(j)' BY <1>3, <1>8, <2>2 DEF Settling
  <2>3. CASE /\ job'[j] = Free
             /\ job[j].about \notin External =>
                   /\ job[j].cert \in crl'[job[j].about].revoked
                   /\ job[j].about \in Trusted =>
                         <<job[j].about, crl'[job[j].about].revoked>> \in loaded'.crl
    BY <1>4, <1>8, <2>3 DEF TookEffect
  <2> QED BY <2>1, <2>2, <2>3, RevocationKept
<1>9. CASE op \notin Watched
  <2>1. TookEffect(j) BY <1>9 DEF TookEffect, Watched, Settling
  <2>2. job'[j] = Free \/ job'[j].op \notin Watched
    BY <1>1, <1>9 DEF Keeps, Watched, Settling
  <2>3. job'[j].op \notin Watched => TakesEffect(j)'
    BY <1>2 DEF TakesEffect, Watched
  <2> QED BY <1>4, <2>1, <2>2, <2>3
<1> QED BY <1>5, <1>6, <1>7, <1>8, <1>9 DEF Watched

\* The steps of one operation, and its failures.
LEMMA StepsTakeEffect ==
  ASSUME ControlInv, EffectInv, NEW j \in Jobs, PkiSteps(j) \/ LabSteps(j)
  PROVE  /\ EffectInv'
         /\ \A k \in Jobs : job[k].clean /\ job[k] # Free /\ job'[k] = Free => TookEffect(k)
<1>1. /\ ~IsFree(j) /\ Keeps(job[j], job'[j])
      /\ \A k \in Jobs \ {j} : job'[k] = job[k]
  BY PkiStepMoves, LabStepMoves
<1>2. TakesEffect(j)' /\ (job[j].clean /\ job[j] # Free /\ job'[j] = Free => TookEffect(j))
  <2>1. job[j] # Free BY <1>1 DEF IsFree, Free
  <2>2. CASE job[j].clean BY <2>1, <2>2, EffectKept DEF EffectInv
  <2>3. CASE ~job[j].clean
    <3>1. job'[j] = Free \/ ~job'[j].clean BY <1>1, <2>3 DEF Keeps
    <3> QED BY <2>3, <3>1 DEF TakesEffect
  <2> QED BY <2>2, <2>3
<1>3. ASSUME NEW k \in Jobs \ {j}
      PROVE  TakesEffect(k)' /\ ~(job[k].clean /\ job[k] # Free)
  <2>1. TakesEffect(k) /\ j \in Jobs \ {k} BY <1>3 DEF EffectInv
  <2>2. ~(job[k].clean /\ job[k] # Free) BY <1>1, <2>1 DEF TakesEffect
  <2>3. job'[k] = job[k] BY <1>1
  <2> QED BY <2>2, <2>3 DEF TakesEffect
<1> QED BY <1>2, <1>3 DEF EffectInv

LEMMA FailuresTakeEffect ==
  ASSUME ControlInv, EffectInv, NEW j \in Jobs, NEW undo, FailStep(j, undo) \/ RefuseStep(j, undo)
  PROVE  /\ EffectInv'
         /\ \A k \in Jobs : job[k].clean /\ job[k] # Free => job'[k] # Free
<1>1. /\ job[j] \in JobRecords /\ job = [k \in Jobs |-> job[k]]
  BY DEF ControlInv, JobOK
<1>2. PICK left, op, todo :
         /\ job' = [job EXCEPT ![j].todo = todo, ![j].op = op, ![j].left = left, ![j].seen = {}]
         /\ op = Outcome(j) /\ todo = Recovery(j, undo)
  <2>1. CASE FailStep(j, undo)
    <3>1. PICK lost : job' = [job EXCEPT ![j].todo = Recovery(j, undo), ![j].op = Outcome(j),
                                         ![j].left = @ \ lost, ![j].seen = {}]
      BY <2>1 DEF FailStep
    <3> QED BY <3>1
  <2>2. CASE RefuseStep(j, undo)
    <3>1. job' = [job EXCEPT ![j].todo = Recovery(j, undo), ![j].op = Outcome(j), ![j].seen = {}]
      BY <2>2 DEF RefuseStep
    <3> DEFINE r == [job[j] EXCEPT !.todo = Recovery(j, undo), !.op = Outcome(j), !.seen = {}]
               q == [job[j] EXCEPT !.todo = Recovery(j, undo), !.op = Outcome(j),
                                   !.left = job[j].left, !.seen = {}]
    <3>2. job' = [job EXCEPT ![j] = r] BY <3>1
    <3>3. r = q BY <1>1 DEF JobRecords
    <3> HIDE DEF r
    <3>4. job' = [job EXCEPT ![j] = q] BY <3>2, <3>3
    <3>5. job' = [job EXCEPT ![j].todo = Recovery(j, undo), ![j].op = Outcome(j),
                             ![j].left = job[j].left, ![j].seen = {}]
      BY <3>4
    <3> QED BY <3>5
  <2> QED BY <2>1, <2>2
<1> DEFINE r == [job[j] EXCEPT !.todo = todo, !.op = op, !.left = left, !.seen = {}]
<1>3. job' = [job EXCEPT ![j] = r] BY <1>2
<1>4. r.op = op /\ r.todo = todo /\ r.clean = job[j].clean BY <1>1 DEF JobRecords
<1> HIDE DEF r
<1>5. job'[j] = r /\ \A k \in Jobs \ {j} : job'[k] = job[k] BY <1>1, <1>3
<1>6. job[j] # Free
  <2>1. job[j].todo # <<>> BY DEF FailStep, RefuseStep, Pending
  <2> QED BY <2>1 DEF Free
<1>7. ~IsFree(j)
  BY DEF FailStep, RefuseStep, Pending, IsFree
<1>8. op \in {"boot", "failed"} /\ (op = "boot" /\ job[j].clean => todo = Publication)
  <2>1. op = IF job[j].op = "boot" THEN "boot" ELSE "failed" BY <1>2 DEF Outcome
  <2>2. ASSUME job[j].op = "boot", job[j].clean PROVE Recovery(j, undo) = Publication
    <3>1. Publishing(j) BY <1>6, <2>2 DEF EffectInv, TakesEffect
    <3>2. ~Pending(j, "insert") /\ ~Pending(j, "sign")
      BY <3>1, PublicationAlone DEF Publishing, Pending
    <3> QED BY <2>2, <3>2 DEF Recovery
  <2> QED BY <1>2, <2>1, <2>2
<1>9. job'[j] # Free BY <1>4, <1>5, <1>8 DEF Free
<1>10. TakesEffect(j)'
  <2>1. ASSUME job'[j].clean PROVE \A k \in Jobs \ {j} : IsFree(k)'
    <3>1. \A k \in Jobs \ {j} : IsFree(k) BY <1>4, <1>5, <1>6, <2>1 DEF EffectInv, TakesEffect
    <3> QED BY <1>5, <3>1 DEF IsFree
  <2>2. job'[j].clean /\ job'[j].op = "boot" => Publishing(j)' BY <1>4, <1>5, <1>8 DEF Publishing
  <2>3. job'[j].op \notin Settling \cup {"rotate", "revokeCertificate"}
    BY <1>4, <1>5, <1>8 DEF Settling
  <2> QED BY <2>1, <2>2, <2>3 DEF TakesEffect
<1>11. ASSUME NEW k \in Jobs \ {j} PROVE TakesEffect(k)' /\ ~(job[k].clean /\ job[k] # Free)
  <2>1. TakesEffect(k) /\ j \in Jobs \ {k} BY <1>11 DEF EffectInv
  <2>2. ~(job[k].clean /\ job[k] # Free) BY <1>7, <2>1 DEF TakesEffect
  <2> QED BY <1>5, <2>2 DEF TakesEffect
<1> QED BY <1>9, <1>10, <1>11 DEF EffectInv

LEMMA RestartTakesEffect ==
  ASSUME NEW j \in Jobs, Restart(j)
  PROVE  EffectInv'
<1> DEFINE r == [Free EXCEPT !.op = "boot", !.todo = Publication]
<1>1. job' = [k \in Jobs |-> IF k = j THEN r ELSE Free] BY DEF Restart
<1>2. r.op = "boot" /\ r.todo = Publication BY DEF Free
<1>3. Free.todo = <<>> /\ Free.left = {} BY DEF Free
<1> HIDE DEF r
<1>4. job'[j] = r /\ \A k \in Jobs \ {j} : job'[k] = Free BY <1>1
<1>5. Publishing(j)' BY <1>2, <1>4 DEF Publishing
<1>6. TakesEffect(j)' BY <1>2, <1>3, <1>4, <1>5 DEF TakesEffect, IsFree, Settling
<1>7. \A k \in Jobs \ {j} : TakesEffect(k)' BY <1>4 DEF TakesEffect
<1> QED BY <1>6, <1>7 DEF EffectInv

-----------------------------------------------------------------------------
\* The requests.

LEMMA StartAlone ==
  ASSUME ControlInv, NEW j \in Jobs, NEW op, NEW todo, NEW about, NEW cert, Start(j, op, todo, about, cert)
  PROVE  /\ job'[j].op = op /\ job'[j].todo = todo /\ job'[j].about = about /\ job'[j].cert = cert
         /\ job'[j].left = {}
         /\ job'[j].clean => \A k \in Jobs \ {j} : IsFree(k)
         /\ IsFree(j)
         /\ \A k \in Jobs \ {j} : IsFree(k) => job'[k] = Free
         /\ \A k \in Jobs \ {j} : ~IsFree(k) => ~job'[k].clean
         /\ UNCHANGED rowVars
<1> DEFINE alone == \A i \in Jobs \ {j} : IsFree(i)
           r == [Free EXCEPT !.op = op, !.todo = todo, !.about = about, !.cert = cert, !.clean = alone]
<1>1. /\ job' = [k \in Jobs |-> IF k = j THEN r ELSE IF IsFree(k) THEN Free
                               ELSE [job[k] EXCEPT !.clean = FALSE]]
      /\ IsFree(j) /\ UNCHANGED rowVars
  BY DEF Start
<1> HIDE DEF alone
<1>2. /\ r.op = op /\ r.todo = todo /\ r.about = about /\ r.cert = cert
      /\ r.left = {} /\ r.clean = alone
  BY DEF Free
<1> HIDE DEF r
<1>3. job'[j] = r BY <1>1
<1>4. ASSUME NEW k \in Jobs \ {j}, ~IsFree(k) PROVE ~job'[k].clean
  <2>1. job[k] \in JobRecords BY DEF ControlInv, JobOK
  <2>2. job'[k] = [job[k] EXCEPT !.clean = FALSE] BY <1>1, <1>4
  <2> QED BY <2>1, <2>2 DEF JobRecords
<1>5. \A k \in Jobs \ {j} : IsFree(k) => job'[k] = Free BY <1>1
<1> QED BY <1>1, <1>2, <1>3, <1>4, <1>5 DEF alone

LEMMA StartTakesEffect ==
  ASSUME ControlInv, NEW j \in Jobs, NEW op, NEW todo, NEW about, NEW cert,
         Start(j, op, todo, about, cert),
         op # "boot",
         op \in Settling => StatusTakesEffect(j)',
         op = "rotate" => RotationTakesEffect(j)',
         op = "revokeCertificate" => RevocationTakesEffect(j)'
  PROVE  EffectInv'
<1>1. /\ job'[j].op = op
      /\ job'[j].clean => \A k \in Jobs \ {j} : IsFree(k)
      /\ \A k \in Jobs \ {j} : IsFree(k) => job'[k] = Free
      /\ \A k \in Jobs \ {j} : ~IsFree(k) => ~job'[k].clean
  BY StartAlone
<1>2. TakesEffect(j)'
  <2>1. job'[j].op = op BY StartAlone
  <2>2. ASSUME job'[j].clean PROVE \A k \in Jobs \ {j} : IsFree(k)'
    <3>1. \A k \in Jobs \ {j} : job'[k] = Free BY <2>2, StartAlone
    <3> QED BY <3>1 DEF IsFree, Free
  <2> QED BY <2>1, <2>2 DEF TakesEffect
<1>3. \A k \in Jobs \ {j} : TakesEffect(k)' BY <1>1 DEF TakesEffect
<1> QED BY <1>2, <1>3 DEF EffectInv

LEMMA SetStatusStarts ==
  ASSUME ControlInv, NEW j \in Jobs, NEW a \in Authorities, NEW to \in Settling, setStatus(j, a, to)
  PROVE  EffectInv'
<1>1. Start(j, to, SetTo(a, to), a, Nobody) BY DEF setStatus
<1>2. job'[j].op = to /\ job'[j].todo = SetTo(a, to) /\ job'[j].about = a BY <1>1, StartAlone
<1>3. StatusTakesEffect(j)' BY <1>2 DEF StatusTakesEffect
<1>4. to \notin {"boot", "rotate", "revokeCertificate"} BY DEF Settling
<1> QED BY <1>1, <1>3, <1>4, StartTakesEffect

LEMMA RotateStarts ==
  ASSUME ControlInv, NEW j \in Jobs, NEW a \in Authorities, NEW b \in Authorities, rotate(j, a, b)
  PROVE  EffectInv'
<1> DEFINE second == SetTo(a, "retiring")
           first == SetTo(b, "active")
<1>1. /\ status[a] # "none" /\ a \notin External /\ b \notin External
      /\ Unused(b) /\ HomeOf[b] = HomeOf[a]
      /\ Start(j, "rotate", Created(b) \o first \o second, a, Nobody)
  BY DEF rotate
<1>2. b # a BY <1>1 DEF Unused
<1>3. first \in Seq(StepSet) /\ second \in Seq(StepSet)
  <2>1. "retiring" \in Settling \ {"active"} BY DEF Settling
  <2>2. second \in Seq(StepSet) BY <2>1, StatusChangeIs
  <2>3. first \in Seq(StepSet) BY ActivationAlone
  <2> QED BY <2>2, <2>3
<1> HIDE DEF first, second
<1>4. Created(b) \o first \o second = Created(b) \o (first \o second)
  <2>1. Step("put", b) \in StepSet /\ Step("insert", b) \in StepSet
    BY NobodyIs, StepIs DEF Deeds, Creating
  <2>2. Created(b) \in Seq(StepSet) BY <2>1 DEF Created
  <2> QED BY <1>3, <2>2, ConcatAssociative
<1>5. job'[j].todo = Created(b) \o (first \o second) /\ job'[j].about = a
  <2> PICK todo : todo = Created(b) \o first \o second OBVIOUS
  <2>1. Start(j, "rotate", todo, a, Nobody) BY <1>1
  <2>2. job'[j].todo = todo /\ job'[j].about = a BY <2>1, StartAlone
  <2> QED BY <1>4, <2>2
<1>6. Replacing(j, a, b)' BY <1>1, <1>2, <1>5 DEF Replacing, first, second
<1>7. RotationTakesEffect(j)' BY <1>1, <1>5, <1>6 DEF RotationTakesEffect
<1>8. "rotate" \notin Settling BY DEF Settling
<1> QED BY <1>1, <1>7, <1>8, StartTakesEffect

LEMMA RevokeStarts ==
  ASSUME ControlInv, NEW j \in Jobs, NEW c \in Certificates, revoke(j, c)
  PROVE  EffectInv'
<1> PICK a : a = certificate[c].by OBVIOUS
<1> PICK todo : todo = <<Step("unapprove", a)>> \o Refreshed(a) OBVIOUS
<1>1. certificate[c].status # "none" /\ Start(j, "revokeCertificate", todo, a, c) BY DEF revoke
<1>2. /\ job'[j].todo = todo /\ job'[j].about = a /\ job'[j].cert = c /\ job'[j].left = {}
      /\ UNCHANGED rowVars
  <2>1. Start(j, "revokeCertificate", todo, a, c) BY <1>1
  <2>2. job'[j].todo = todo BY <2>1, StartAlone
  <2>3. job'[j].about = a BY <2>1, StartAlone
  <2>4. job'[j].cert = c BY <2>1, StartAlone
  <2>5. job'[j].left = {} BY <2>1, StartAlone
  <2>6. UNCHANGED rowVars BY <2>1 DEF Start
  <2> QED BY <2>2, <2>3, <2>4, <2>5, <2>6
<1>3. certificate'[c].status # "none" /\ certificate'[c].by = a BY <1>1, <1>2 DEF rowVars
<1>4. RevocationTakesEffect(j)' BY <1>2, <1>3 DEF RevocationTakesEffect
<1>5. "revokeCertificate" \notin Settling BY DEF Settling
<1> QED BY <1>1, <1>4, <1>5, StartTakesEffect

LEMMA RequestsTakeEffect ==
  ASSUME ControlInv, NEW j \in Jobs,
         AuthorityRequests(j, OfPlatform) \/ CertificateRequests(j) \/ LabRequests(j)
  PROVE  EffectInv' /\ \E op, todo, about, cert : Start(j, op, todo, about, cert)
<1>1. ASSUME NEW op, NEW todo, NEW about, NEW cert, Start(j, op, todo, about, cert),
             op \notin Watched
      PROVE  EffectInv' /\ \E o, t, a, c : Start(j, o, t, a, c)
  BY <1>1, StartTakesEffect DEF Watched
<1>2. {"createManaged", "importExternal", "refreshCrl", "uploadCrl", "issue", "registerExternal",
       "create", "reset", "end", "lab", "sweep"} \cap Watched = {}
  BY DEF Watched, Settling
<1>3. CASE AuthorityRequests(j, OfPlatform)
  <2>1. PICK a \in OfPlatform :
           \/ createManaged(j, a) \/ importExternal(j, a)
           \/ \E to \in {"active", "retiring", "revoked"} : setStatus(j, a, to)
           \/ \E b \in OfPlatform : rotate(j, a, b)
           \/ refreshCrl(j, a) \/ uploadCrl(j, a)
    BY <1>3 DEF AuthorityRequests
  <2>2. OfPlatform \subseteq Authorities BY PlatformIs
  <2>3. CASE createManaged(j, a) \/ importExternal(j, a)
    BY <1>1, <1>2, <2>3 DEF createManaged, importExternal
  <2>4. CASE refreshCrl(j, a) \/ uploadCrl(j, a)
    BY <1>1, <1>2, <2>4 DEF refreshCrl, uploadCrl
  <2>5. ASSUME NEW to \in {"active", "retiring", "revoked"}, setStatus(j, a, to)
        PROVE  EffectInv' /\ \E op, todo, about, cert : Start(j, op, todo, about, cert)
    <3>1. EffectInv' BY <2>2, <2>5, SetStatusStarts DEF Settling
    <3>2. Start(j, to, SetTo(a, to), a, Nobody) BY <2>5 DEF setStatus
    <3> QED BY <3>1, <3>2
  <2>6. ASSUME NEW b \in OfPlatform, rotate(j, a, b)
        PROVE  EffectInv' /\ \E op, todo, about, cert : Start(j, op, todo, about, cert)
    <3>1. EffectInv' BY <2>2, <2>6, RotateStarts
    <3>2. \E todo : Start(j, "rotate", todo, a, Nobody) BY <2>6 DEF rotate
    <3> QED BY <3>1, <3>2
  <2> QED BY <2>1, <2>3, <2>4, <2>5, <2>6
<1>4. CASE CertificateRequests(j)
  <2>1. PICK c \in Certificates :
           \/ \E a \in Authorities : issue(j, c, a) \/ registerExternal(j, c, a)
           \/ revoke(j, c)
    BY <1>4 DEF CertificateRequests
  <2>2. ASSUME NEW a \in Authorities, issue(j, c, a) \/ registerExternal(j, c, a)
        PROVE  EffectInv' /\ \E op, todo, about, cert : Start(j, op, todo, about, cert)
    BY <1>1, <1>2, <2>2 DEF issue, registerExternal
  <2>3. CASE revoke(j, c)
    <3>1. EffectInv' BY <2>3, RevokeStarts
    <3>2. \E todo : Start(j, "revokeCertificate", todo, certificate[c].by, c) BY <2>3 DEF revoke
    <3> QED BY <3>1, <3>2
  <2> QED BY <2>1, <2>2, <2>3
<1>5. CASE LabRequests(j)
  <2>1. CASE create(j) \/ reset(j) \/ revokeWorkspace(j) \/ labRequest(j)
    BY <1>1, <1>2, <2>1 DEF create, reset, revokeWorkspace, labRequest
  <2>2. CASE expireDueLabWorkspaces(j)
    <3>1. \E todo : Start(j, "sweep", todo, Nobody, Nobody) BY <2>2 DEF expireDueLabWorkspaces
    <3> QED BY <1>1, <1>2, <3>1
  <2> QED BY <1>5, <2>1, <2>2 DEF LabRequests
<1> QED BY <1>3, <1>4, <1>5

-----------------------------------------------------------------------------
\* Every step.

LEMMA StandingTakesEffect ==
  ASSUME EffectInv, UNCHANGED <<rowVars, trustVars, job>>
  PROVE  EffectInv'
<1>1. UNCHANGED <<status, issuer, crl, certificate, files, job>> BY DEF rowVars, trustVars
<1>2. buildTrustBundle' = buildTrustBundle BY BundleKept
<1>3. ASSUME NEW j \in Jobs PROVE TakesEffect(j)'
  <2>1. TakesEffect(j) BY DEF EffectInv
  <2>2. Publishing(j)' <=> Publishing(j) BY <1>1, <1>2 DEF Publishing
  <2>3. StatusTakesEffect(j)' <=> StatusTakesEffect(j) BY <1>1, <2>2 DEF StatusTakesEffect
  <2>4. \A a, b : Replacing(j, a, b)' <=> Replacing(j, a, b) BY <1>1, <2>2 DEF Replacing
  <2>5. RotationTakesEffect(j)' <=> RotationTakesEffect(j) BY <1>1, <2>4 DEF RotationTakesEffect
  <2>6. RevocationTakesEffect(j)' <=> RevocationTakesEffect(j)
    BY <1>1, <2>2 DEF RevocationTakesEffect
  <2> QED BY <1>1, <2>1, <2>2, <2>3, <2>5, <2>6 DEF TakesEffect, IsFree
<1> QED BY <1>3 DEF EffectInv

\* A step keeps EffectInv, and is no end of an operation but one that has taken effect.
LEMMA NextTakesEffect ==
  ASSUME ControlInv, EffectInv, [LabNext]_labVars
  PROVE  /\ EffectInv'
         /\ \A k \in Jobs : job[k].clean /\ job[k] # Free /\ job'[k] = Free /\ failures' = failures =>
                               TookEffect(k)
<1>1. ASSUME UNCHANGED <<rowVars, trustVars, job>>
      PROVE  /\ EffectInv'
             /\ \A k \in Jobs : job[k] # Free => job'[k] # Free
  BY <1>1, StandingTakesEffect
<1>2. CASE UNCHANGED labVars
  <2>1. UNCHANGED <<rowVars, trustVars, job>> BY <1>2 DEF labVars, pkiVars
  <2> QED BY <1>1, <2>1
<1>3. ASSUME NEW j \in Jobs,
             AuthorityRequests(j, OfPlatform) \/ CertificateRequests(j) \/ LabRequests(j)
      PROVE  /\ EffectInv'
             /\ \A k \in Jobs : job[k].clean /\ job[k] # Free /\ job'[k] = Free => TookEffect(k)
  <2>1. EffectInv' /\ \E op, todo, about, cert : Start(j, op, todo, about, cert)
    BY <1>3, RequestsTakeEffect
  <2>2. ASSUME NEW k \in Jobs, job[k].clean, job[k] # Free, job'[k] = Free, job[k].op \in Watched
        PROVE  FALSE
    <3>1. job[k].todo # <<>> BY <2>2, WatchedWorks DEF EffectInv
    <3>2. ~IsFree(k) BY <3>1 DEF IsFree
    <3>3. IsFree(j) /\ (k # j => ~job'[k].clean)
      <4> PICK op, todo, about, cert : Start(j, op, todo, about, cert) BY <2>1
      <4>1. IsFree(j) BY DEF Start
      <4>2. \A i \in Jobs \ {j} : ~IsFree(i) => ~job'[i].clean BY StartAlone
      <4> QED BY <3>2, <4>1, <4>2
    <3>4. Free.clean BY DEF Free
    <3> QED BY <2>2, <3>2, <3>3, <3>4
  <2>3. \A k \in Jobs : job[k].op \notin Watched => TookEffect(k)
    BY DEF TookEffect, Watched, Settling
  <2> QED BY <2>1, <2>2, <2>3
<1>4. ASSUME NEW j \in Jobs, Progress(j)
      PROVE  /\ EffectInv'
             /\ \A k \in Jobs : job[k].clean /\ job[k] # Free /\ job'[k] = Free => TookEffect(k)
  <2>1. CASE PkiSteps(j) \/ LabSteps(j) BY <2>1, StepsTakeEffect
  <2>2. CASE RefuseStep(j, Undo(j))
    <3> PICK undo : undo = Undo(j) OBVIOUS
    <3> QED BY <2>2, FailuresTakeEffect
  <2> QED BY <1>4, <2>1, <2>2 DEF Progress
<1>5. ASSUME NEW j \in Jobs, FailStep(j, Undo(j))
      PROVE  /\ EffectInv'
             /\ \A k \in Jobs : job[k].clean /\ job[k] # Free => job'[k] # Free
  <2> PICK undo : undo = Undo(j) OBVIOUS
  <2> QED BY <1>5, FailuresTakeEffect
<1>6. ASSUME NEW j \in Jobs, Restart(j) PROVE EffectInv' /\ failures' # failures
  <2>1. failures' = failures + 1 BY <1>6 DEF Restart
  <2>2. failures \in Nat BY ControlInvIs, PkiAssumption DEF StateOK
  <2> QED BY <1>6, <2>1, <2>2, RestartTakesEffect
<1>7. CASE Aging
  <2>1. UNCHANGED <<rowVars, trustVars, job>> BY <1>7 DEF Aging, AuthorityLapses, CrlLapses
  <2> QED BY <1>1, <2>1
<1>8. ASSUME NEW w \in Workspaces, TimePasses(w) PROVE UNCHANGED <<rowVars, trustVars, job>>
  BY <1>8 DEF TimePasses, pkiVars
<1> QED BY <1>1, <1>2, <1>3, <1>4, <1>5, <1>6, <1>7, <1>8 DEF LabNext

LEMMA EffectInvInit ==
  ASSUME LabInit
  PROVE  EffectInv
BY DEF LabInit, PkiInit, EffectInv, TakesEffect

LEMMA EffectInvAlways == LabSpec => []EffectInv
<1>1. LabInit => EffectInv BY EffectInvInit
<1>2. ControlInv /\ EffectInv /\ [LabNext]_labVars => EffectInv' BY NextTakesEffect
<1> QED BY <1>1, <1>2, ControlInvAlways, PTL DEF LabSpec

\* An operation that nothing overlapped and that succeeded has taken effect,
\* whatever earlier ones, overlapping, failed or cut short, left behind: Envoy
\* trusts what is stored, an activation or a replacement leaves one default
\* issuer, a revoked certificate is on the list Envoy has
\* (CertificateAuthorityService, CertificateService).
THEOREM OperationsHaveTakenEffect == LabSpec => OperationsTakeEffect
<1> DEFINE Took ==
      \A j \in Jobs :
         LET r == job[j]
             a == r.about
         IN r.clean /\ r # Free /\ job'[j] = Free /\ failures' = failures =>
            /\ r.op \in {"active", "retiring", "revoked", "rotate", "boot"} =>
                  loaded' = buildTrustBundle
            /\ r.op \in {"active", "retiring", "revoked"} => status'[a] = r.op
            /\ r.op = "active" /\ a \notin External => IssuersBeside(a, issuer') = {a}
            /\ r.op = "rotate" =>
                  /\ status'[a] = "retiring"
                  /\ \E b \in Trusted \ {a} : IssuersBeside(a, issuer') = {b}
            /\ r.op = "revokeCertificate" /\ a \notin External =>
                  /\ r.cert \in crl'[a].revoked
                  /\ a \in Trusted => <<a, crl'[a].revoked>> \in loaded'.crl
<1>1. ControlInv /\ EffectInv /\ [LabNext]_labVars => Took BY NextTakesEffect DEF TookEffect
<1>2. OperationsTakeEffect <=> [][Took]_pkiVars BY PTL DEF OperationsTakeEffect
<1> HIDE DEF Took
<1> QED BY <1>1, <1>2, ControlInvAlways, EffectInvAlways, PTL DEF LabSpec
=============================================================================
