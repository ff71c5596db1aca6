------------------------------ MODULE ScopesProofs ------------------------------
(***************************************************************************)
(* Proofs about Scopes, for entries of any number and any names.           *)
(***************************************************************************)
EXTENDS Scopes, TLAPS

\* What the loop has looked at.
SeenInv == /\ \A p \in 1..Len(ordered) : ordered[p] \in seen
           /\ \A x \in seen : \E p \in 1..Len(ordered) : ordered[p] = x
           /\ \A k \in 1..(i - 1) : entries[k].name = Blank \/ entries[k].name \in seen
           /\ \A x \in seen : \E k \in 1..(i - 1) : entries[k].name = x
           /\ \A k \in 1..(i - 1) : entries[k].text /\ entries[k].name \notin Wildcards
           /\ \A p, q \in 1..Len(ordered) : ordered[p] = ordered[q] => p = q

\* What stands before a scope was met before it.
OrderInv == \A p, q \in 1..Len(ordered) : p < q =>
              \E k \in 1..(i - 1) : /\ entries[k].name = ordered[p]
                                    /\ \A m \in 1..k : entries[m].name # ordered[q]

EndInv == /\ building = "idle" => entries = <<>> /\ i = 1 /\ ordered = <<>>
          /\ building = "built" => i = Len(entries) + 1
          /\ building = "refused" => Broad(entries)

ScopesInv == ScopesTypeOK /\ SeenInv /\ OrderInv /\ EndInv

\* Before any call the loop has looked at nothing.
LEMMA ScopesInitInv == ScopesInit => ScopesInv
  BY DEF ScopesInit, ScopesInv, ScopesTypeOK, SeenInv, OrderInv, EndInv

\* An input is a sequence of entries.
LEMMA InputSeq == \A s \in Inputs : s \in Seq(Raws)
  BY EntriesAssumption DEF Inputs

\* Keeping an entry keeps what has been looked at and kept in step.
LEMMA KeepStep == ScopesInv /\ Keep => ScopesInv'
<1> SUFFICES ASSUME ScopesInv, Keep PROVE ScopesInv'
  OBVIOUS
<1> DEFINE e == entries[i].name
           n == Len(ordered)
<1> USE DEF ScopesInv, ScopesTypeOK
<1>a. i \in 1..Len(entries) /\ Len(entries) \in Nat /\ n \in Nat /\ entries[i] \in Raws
  BY DEF Keep, Acceptable, At
<1>0. /\ i \in 1..Len(entries) /\ Len(entries) \in Nat /\ n \in Nat
      /\ entries[i] \in Raws /\ entries[i].text
      /\ e \in Names /\ e # Blank /\ e \notin Wildcards /\ e \notin seen
      /\ i' = i + 1 /\ entries' = entries /\ building' = building
      /\ building = "loop"
  BY <1>a DEF Keep, Acceptable, At, New, Wild, Raws
<1>1. /\ ordered' \in Seq(Names) /\ Len(ordered') = n + 1
      /\ \A p \in 1..n : ordered'[p] = ordered[p]
      /\ ordered'[n + 1] = e
  BY <1>0 DEF Keep
<1>2. seen' = seen \cup {e}
  BY DEF Keep
<1>b. /\ \A p \in 1..Len(ordered') : p \in 1..n \/ p = n + 1
      /\ \A p \in 1..n : p \in 1..Len(ordered')
      /\ n + 1 \in 1..Len(ordered')
  BY <1>0, <1>1
<1>c. /\ i' - 1 = i /\ i \in 1..i
      /\ \A k \in 1..i : k \in 1..(i - 1) \/ k = i
      /\ \A k \in 1..(i - 1) : k \in 1..i
  BY <1>0
<1> HIDE DEF e, n
<1>3. ScopesTypeOK'
  BY <1>0, <1>1, <1>2
<1>4. SeenInv'
  <2>1. /\ \A p \in 1..Len(ordered') : ordered'[p] \in seen'
        /\ \A x \in seen' : \E p \in 1..Len(ordered') : ordered'[p] = x
    <3>1. ASSUME NEW p \in 1..Len(ordered') PROVE ordered'[p] \in seen'
      BY <1>1, <1>2, <1>b DEF SeenInv, n
    <3>2. ASSUME NEW x \in seen' PROVE \E p \in 1..Len(ordered') : ordered'[p] = x
      <4>1. CASE x = e
        BY <1>1, <1>b, <4>1
      <4>2. CASE x \in seen
        <5>1. PICK p \in 1..n : ordered[p] = x
          BY <4>2 DEF SeenInv, n
        <5> QED
          BY <1>1, <1>b, <5>1
      <4> QED
        BY <1>2, <4>1, <4>2
    <3> QED
      BY <3>1, <3>2
  <2>2. /\ \A k \in 1..(i' - 1) : entries'[k].name = Blank \/ entries'[k].name \in seen'
        /\ \A x \in seen' : \E k \in 1..(i' - 1) : entries'[k].name = x
    BY <1>0, <1>2, <1>c DEF SeenInv, e
  <2>3. \A k \in 1..(i' - 1) : entries'[k].text /\ entries'[k].name \notin Wildcards
    BY <1>0, <1>c DEF SeenInv, e
  <2>4. \A p, q \in 1..Len(ordered') : ordered'[p] = ordered'[q] => p = q
    <3> SUFFICES ASSUME NEW p \in 1..Len(ordered'), NEW q \in 1..Len(ordered'),
                        ordered'[p] = ordered'[q]
                 PROVE  p = q
      OBVIOUS
    <3>1. \A x \in 1..n : ordered[x] # e
      BY <1>0 DEF SeenInv, n
    <3> QED
      BY <1>1, <1>b, <3>1 DEF SeenInv, n
  <2> QED
    BY <2>1, <2>2, <2>3, <2>4 DEF SeenInv
<1>5. OrderInv'
  <2> SUFFICES ASSUME NEW p \in 1..Len(ordered'), NEW q \in 1..Len(ordered'), p < q
               PROVE \E k \in 1..(i' - 1) :
                       /\ entries'[k].name = ordered'[p]
                       /\ \A m \in 1..k : entries'[m].name # ordered'[q]
    BY DEF OrderInv
  <2>1. CASE q \in 1..n
    <3>1. p \in 1..n
      BY <1>0, <1>b, <2>1
    <3>2. PICK k \in 1..(i - 1) : /\ entries[k].name = ordered[p]
                                  /\ \A m \in 1..k : entries[m].name # ordered[q]
      BY <2>1, <3>1 DEF OrderInv, n
    <3> QED
      BY <1>0, <1>1, <1>c, <2>1, <3>1, <3>2
  <2>2. CASE q = n + 1
    <3>1. p \in 1..n
      BY <1>0, <1>b, <2>2
    <3>2. ordered[p] \in seen
      BY <3>1 DEF SeenInv, n
    <3>3. PICK k \in 1..(i - 1) : entries[k].name = ordered[p]
      BY <3>2 DEF SeenInv
    <3>4. \A m \in 1..k : entries[m].name # e
      BY <1>0, <3>3 DEF SeenInv
    <3> QED
      BY <1>0, <1>1, <1>c, <2>2, <3>1, <3>3, <3>4
  <2> QED
    BY <1>b, <2>1, <2>2
<1>6. EndInv'
  BY <1>0 DEF EndInv
<1> QED
  BY <1>3, <1>4, <1>5, <1>6

\* Passing over an entry that is blank or known loses nothing.
LEMMA SkipStep == ScopesInv /\ (SkipBlank \/ SkipDuplicate) => ScopesInv'
<1> SUFFICES ASSUME ScopesInv, SkipBlank \/ SkipDuplicate PROVE ScopesInv'
  OBVIOUS
<1> USE DEF ScopesInv, ScopesTypeOK
<1>0. /\ i \in 1..Len(entries) /\ Len(entries) \in Nat /\ Len(ordered) \in Nat
      /\ entries[i].text /\ entries[i].name \notin Wildcards
      /\ entries[i].name = Blank \/ entries[i].name \in seen
      /\ i' = i + 1 /\ entries' = entries /\ building' = building
      /\ seen' = seen /\ ordered' = ordered /\ building = "loop"
  BY DEF SkipBlank, SkipDuplicate, Acceptable, At, New, Wild
<1>1. ScopesTypeOK' /\ EndInv'
  BY <1>0 DEF EndInv
<1>2. SeenInv'
  BY <1>0 DEF SeenInv
<1>3. OrderInv'
  <2> SUFFICES ASSUME NEW p \in 1..Len(ordered), NEW q \in 1..Len(ordered), p < q
               PROVE \E k \in 1..(i' - 1) : /\ entries[k].name = ordered[p]
                                            /\ \A m \in 1..k : entries[m].name # ordered[q]
    BY <1>0 DEF OrderInv
  <2>1. PICK k \in 1..(i - 1) : /\ entries[k].name = ordered[p]
                                /\ \A m \in 1..k : entries[m].name # ordered[q]
    BY DEF OrderInv
  <2>2. k \in 1..(i' - 1)
    BY <1>0
  <2> QED
    BY <2>1, <2>2
<1> QED
  BY <1>1, <1>2, <1>3

\* No step of the loop, nor a call, breaks the invariant.
LEMMA ScopesInvStep == ScopesInv /\ [ScopesNext]_scopesVars => ScopesInv'
<1> SUFFICES ASSUME ScopesInv, [ScopesNext]_scopesVars PROVE ScopesInv'
  OBVIOUS
<1> USE DEF ScopesInv
<1>1. ASSUME NEW s \in Inputs, Of(s) PROVE ScopesInv'
  BY <1>1, InputSeq DEF Of, ScopesTypeOK, SeenInv, OrderInv, EndInv
<1>2. CASE RefuseEntry
  BY <1>2 DEF RefuseEntry, At, Wild, Broad, ScopesTypeOK, SeenInv, OrderInv, EndInv
<1>3. CASE Return
  BY <1>3 DEF Return, ScopesTypeOK, SeenInv, OrderInv, EndInv
<1>4. CASE UNCHANGED scopesVars
  BY <1>4 DEF scopesVars, Broad, ScopesTypeOK, SeenInv, OrderInv, EndInv
<1> QED
  BY <1>1, <1>2, <1>3, <1>4, KeepStep, SkipStep DEF ScopesNext, Loop

\* The invariant holds in every reachable state.
THEOREM ScopesInvariance == ScopesSpec => []ScopesInv
  BY ScopesInitInv, ScopesInvStep, PTL DEF ScopesSpec

\* What the invariant says of a finished loop: it kept what was named.
LEMMA InvIsExact == ScopesInv => BuiltIsWhatWasNamed
<1> SUFFICES ASSUME ScopesInv, building = "built"
             PROVE  /\ ~Broad(entries)
                    /\ {ordered[p] : p \in 1..Len(ordered)} = Named(entries)
                    /\ \A p, q \in 1..Len(ordered) : ordered[p] = ordered[q] => p = q
  BY DEF ScopesInv, EndInv, BuiltIsWhatWasNamed
<1>1. Len(entries) \in Nat /\ i - 1 = Len(entries)
  BY DEF ScopesInv, ScopesTypeOK, EndInv
<1>2. /\ \A k \in 1..Len(entries) : entries[k].name = Blank \/ entries[k].name \in seen
      /\ \A x \in seen : \E k \in 1..Len(entries) : entries[k].name = x
      /\ \A k \in 1..Len(entries) : entries[k].text /\ entries[k].name \notin Wildcards
      /\ \A p \in 1..Len(ordered) : ordered[p] \in seen
      /\ \A x \in seen : \E p \in 1..Len(ordered) : ordered[p] = x
      /\ Blank \notin seen
  BY <1>1, NamesAssumption DEF ScopesInv, ScopesTypeOK, SeenInv
<1>3. Named(entries) = seen
  BY <1>2 DEF Named
<1>4. {ordered[p] : p \in 1..Len(ordered)} = seen
  BY <1>2
<1> QED
  BY <1>2, <1>3, <1>4 DEF ScopesInv, SeenInv, Broad

\* And it kept it in the order of the first mentions.
LEMMA InvIsOrdered == ScopesInv => FirstSeenOrder
<1> SUFFICES ASSUME ScopesInv, building = "built" PROVE FirstSeenOrder
  BY DEF FirstSeenOrder
<1>1. i - 1 = Len(entries)
  BY DEF ScopesInv, ScopesTypeOK, EndInv
<1>2. \A p, q \in 1..Len(ordered) : p < q =>
        \E k \in 1..Len(entries) : /\ entries[k].name = ordered[p]
                                   /\ \A m \in 1..k : entries[m].name # ordered[q]
  BY <1>1 DEF ScopesInv, OrderInv
<1> QED
  BY <1>2 DEF FirstSeenOrder

\* Each named scope once, nothing else, and no broad request, for entries of
\* any number.
THEOREM BuiltExactly == ScopesSpec => []BuiltIsWhatWasNamed
  BY InvIsExact, ScopesInvariance, PTL

\* The scopes keep the order of their first mention, for any entries.
THEOREM OrderKept == ScopesSpec => []FirstSeenOrder
  BY InvIsOrdered, ScopesInvariance, PTL
================================================================================
