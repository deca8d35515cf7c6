-------------------------- MODULE CodePage_proofs --------------------------
(***************************************************************************)
(* The two comparisons of text.  What that of a kernel page passes over,   *)
(* and that it reports no patch of the guest's, for every page size, page  *)
(* content, set of patch sites and pair of nops.  And that of a process's  *)
(* code mapping, for every size of the text and of the mapping, and every  *)
(* behaviour of the guest's paging.                                        *)
(***************************************************************************)
EXTENDS CodePage, UserCodePage, TLAPS

-----------------------------------------------------------------------------
(* KernelValidator::validateCodePage.                                      *)

\* how far an accepted change can move the scan
LEMMA AdvanceRange ==
  ASSUME NEW k
  PROVE  Advance(k) \in {0, 1, 5, 6}
BY DEF Advance

-----------------------------------------------------------------------------
LEMMA TypeInit == Init => TypeOK
BY PageAssumption DEF Init, TypeOK

LEMMA TypeStep == TypeOK /\ [Next]_vars => TypeOK'
<1> SUFFICES ASSUME TypeOK, [Next]_vars PROVE TypeOK'
  OBVIOUS
<1> USE PageAssumption DEF TypeOK
<1>1. CASE UNCHANGED vars
  BY <1>1 DEF vars
<1>2. ASSUME verdict = "scanning", NextByte PROVE TypeOK'
  BY <1>2 DEF NextByte
<1>3. ASSUME verdict = "scanning", AcceptChange PROVE TypeOK'
  <2>1. Advance(i) \in {1, 5, 6} /\ i \in 0..(Size - 1)
    BY <1>3, AdvanceRange DEF AcceptChange
  <2> DEFINE new == [at |-> i, resume |-> i + Advance(i)]
  <2>2. i + Advance(i) \in 1..(Size + 5)
    BY <2>1
  <2>3. new \in [at : 0..(Size - 1), resume : 1..(Size + 5)]
    BY <2>1, <2>2
  <2>4. accepted' = accepted \cup {new} /\ i' = i + Advance(i)
    BY <1>3 DEF AcceptChange
  <2>5. UNCHANGED <<page, verdict>>
    BY <1>3 DEF AcceptChange
  <2> HIDE DEF new
  <2>6. accepted' \subseteq [at : 0..(Size - 1), resume : 1..(Size + 5)]
    BY <2>3, <2>4
  <2>7. i' \in 0..(Size + 5)
    BY <2>2, <2>4
  <2> QED
    BY <2>5, <2>6, <2>7
<1>4. ASSUME verdict = "scanning", StopAtUninitialised PROVE TypeOK'
  BY <1>4 DEF StopAtUninitialised
<1>5. ASSUME verdict = "scanning", ReportChange PROVE TypeOK'
  BY <1>5 DEF ReportChange
<1>6. ASSUME verdict = "scanning", PageDone PROVE TypeOK'
  BY <1>6 DEF PageDone
<1>7. ASSUME GetPage PROVE TypeOK'
  BY <1>7 DEF GetPage
<1> QED
  BY <1>1, <1>2, <1>3, <1>4, <1>5, <1>6, <1>7 DEF Next, Step

(***************************************************************************)
(* The scan's variables keep their types: the loop counter never gets more *)
(* than five bytes past the page, whatever patches are accepted.           *)
(***************************************************************************)
THEOREM TypeCorrect == Spec => []TypeOK
BY TypeInit, TypeStep, PTL DEF Spec

-----------------------------------------------------------------------------
\* the run of changed bytes that goes on from a window
Explains(a, k) ==
  /\ a.at <= k
  /\ \A j \in a.resume..k : Changed(j - 1) /\ Changed(j)

LEMMA AccountedInit == Init => ChangesAccountedFor
BY DEF Init, ChangesAccountedFor

\* a run goes on, from a window or from the hypercall page
LEMMA RunGoesOn ==
  ASSUME TypeOK, i > 0, Changed(i - 1), Changed(i), i - 1 \notin page.hypercall,
         BehindPatch(i - 1) \/ BehindHypercall(i - 1)
  PROVE  BehindPatch(i) \/ BehindHypercall(i)
<1>0. /\ i \in Nat
      /\ \A a \in accepted : a.at \in Nat /\ a.resume \in Nat
      /\ \A h \in page.hypercall : h \in Nat
  BY PageAssumption DEF TypeOK, Page
<1>1. CASE BehindPatch(i - 1)
  <2>1. PICK a \in accepted : Explains(a, i - 1)
    BY <1>1 DEF BehindPatch, Explains
  <2>2. a.at \in Nat /\ a.resume \in Nat /\ a.at <= i
    BY <2>1, <1>0 DEF Explains
  <2>3. ASSUME NEW j \in a.resume..i PROVE Changed(j - 1) /\ Changed(j)
    <3>1. j = i \/ j \in a.resume..(i - 1)
      BY <2>2, <1>0
    <3> QED
      BY <3>1, <2>1 DEF Explains
  <2> QED
    BY <2>2, <2>3 DEF BehindPatch
<1>2. CASE BehindHypercall(i - 1)
  <2>1. PICK h \in page.hypercall : h < i - 1 /\ \A j \in h..(i - 1) : Changed(j)
    BY <1>2 DEF BehindHypercall
  <2>2. \A j \in h..i : j = i \/ j \in h..(i - 1)
    BY <1>0
  <2>3. h < i
    BY <2>1, <1>0
  <2> QED
    BY <2>1, <2>2, <2>3 DEF BehindHypercall
<1> QED
  BY <1>1, <1>2

LEMMA AccountedStep ==
  TypeOK /\ ChangesAccountedFor /\ [Next]_vars => ChangesAccountedFor'
<1> SUFFICES ASSUME TypeOK, ChangesAccountedFor, [Next]_vars
             PROVE  ChangesAccountedFor'
  OBVIOUS
<1>0. Size \in Nat /\ i \in Nat
  BY PageAssumption DEF TypeOK
<1>1. ASSUME UNCHANGED <<page, i, accepted>> PROVE ChangesAccountedFor'
  BY <1>1 DEF ChangesAccountedFor, BehindPatch, BehindHypercall, Changed
<1>2. ASSUME NextByte PROVE ChangesAccountedFor'
  <2>1. i' = i + 1 /\ page' = page /\ accepted' = accepted /\ ~Candidate
    BY <1>2 DEF NextByte
  <2> SUFFICES ASSUME NEW k \in (0..(Size - 1)) \ page.hypercall,
                      k < i + 1, Changed(k)
               PROVE  BehindPatch(k) \/ BehindHypercall(k)
    BY <2>1 DEF ChangesAccountedFor, BehindPatch, BehindHypercall, Changed
  <2>2. CASE k < i
    BY <2>2 DEF ChangesAccountedFor
  <2>3. CASE k = i
    <3>1. i > 0 /\ Changed(i - 1)
      BY <2>1, <2>3, <1>0 DEF Candidate, FirstOfRun
    <3>2. CASE i - 1 \in page.hypercall
      <4>1. \A j \in (i - 1)..i : j = i - 1 \/ j = i
        BY <1>0
      <4>2. i - 1 < i
        BY <1>0
      <4> QED
        BY <4>1, <4>2, <3>1, <3>2, <2>3 DEF BehindHypercall
    <3>3. CASE i - 1 \notin page.hypercall
      <4>1. i - 1 \in 0..(Size - 1) /\ i - 1 < i
        BY <3>1, <2>3, <1>0
      <4>2. BehindPatch(i - 1) \/ BehindHypercall(i - 1)
        BY <4>1, <3>1, <3>3 DEF ChangesAccountedFor
      <4> QED
        BY <4>2, <3>1, <3>3, <2>3, RunGoesOn
    <3> QED
      BY <3>2, <3>3
  <2> QED
    BY <2>2, <2>3, <1>0
<1>3. ASSUME AcceptChange PROVE ChangesAccountedFor'
  <2> DEFINE new == [at |-> i, resume |-> i + Advance(i)]
  <2>1. /\ i' = i + Advance(i)
        /\ page' = page
        /\ accepted' = accepted \cup {new}
    BY <1>3 DEF AcceptChange
  <2>2. Advance(i) \in Nat
    BY AdvanceRange
  <2> SUFFICES ASSUME NEW k \in (0..(Size - 1)) \ page.hypercall,
                      k < i + Advance(i), Changed(k)
               PROVE  \/ \E a \in accepted \cup {new} : Explains(a, k)
                      \/ BehindHypercall(k)
    BY <2>1 DEF ChangesAccountedFor, BehindPatch, BehindHypercall, Changed, Explains
  <2>3. CASE k < i
    BY <2>3 DEF ChangesAccountedFor, BehindPatch, Explains
  <2>4. CASE k >= i
    <3>1. new.at <= k /\ new.resume..k = {}
      BY <2>4, <2>2, <1>0
    <3>2. Explains(new, k)
      BY <3>1 DEF Explains
    <3> QED
      BY <3>2
  <2> QED
    BY <2>3, <2>4, <1>0
<1> QED
  BY <1>1, <1>2, <1>3
  DEF Next, Step, GetPage, StopAtUninitialised, ReportChange, PageDone, vars

(***************************************************************************)
(* Every changed byte outside of the hypercall page that the loop has left *)
(* behind lies in the window of an accepted patch, or in a run of changes  *)
(* that goes on from it or from the hypercall page: a page without an      *)
(* acceptable patch and without a part of the hypercall page is compared   *)
(* byte by byte.                                                           *)
(***************************************************************************)
THEOREM NothingElseSkipped == Spec => []ChangesAccountedFor
<1>1. Init => TypeOK /\ ChangesAccountedFor
  BY TypeInit, AccountedInit
<1>2. TypeOK /\ ChangesAccountedFor /\ [Next]_vars
        => TypeOK' /\ ChangesAccountedFor'
  BY TypeStep, AccountedStep
<1> QED
  BY <1>1, <1>2, PTL DEF Spec

-----------------------------------------------------------------------------
(* No false alarm.  When the scan comes to a patch site it comes to the    *)
(* first byte of it that differs, recognises the patch there, and resumes  *)
(* behind all that differs in the site and not behind the next one.        *)

Unmodified ==
  page \in Pages /\ SitesApart /\ page.foreign = {}

\* the bytes of a site in front of k do not differ
FirstIn(s, k) == k \in s.first..s.last /\ \A j \in s.first..(k - 1) : ~Changed(j)

\* what differs from the counter on is in sites that the scan comes to whole
AheadInSites ==
  \A k \in (0..(Size - 1)) \ page.hypercall :
    k >= i /\ Changed(k) =>
      \E s \in page.sites : k \in s.first..s.last
                            /\ \A j \in s.first..(i - 1) : ~Changed(j)

\* the advance from k recognises the patch at s and covers it
Covers(s, k) ==
  /\ Advance(k) > 0
  /\ k + Advance(k) <= s.last + 4
  /\ \A j \in s.first..s.last : j >= k + Advance(k) => ~Changed(j)

LEMMA SiteBounds ==
  ASSUME TypeOK
  PROVE  /\ Size \in Nat \ {0}
         /\ i \in Nat
         /\ \A s \in page.sites : s.first \in 0..(Size - 1) /\ s.last \in Nat
BY PageAssumption DEF TypeOK, Page, Positions

\* an atomic nop that differs
LEMMA AtomicBytes ==
  ASSUME TypeOK, NEW k \in Nat, Changed(k), IsAtomicNop(k)
  PROVE  Toggled(page, k, "66", "90")
<1>1. k - 2 + 3 - 1 = k /\ 3 \in 1..5
  OBVIOUS
<1>2. DOMAIN Nop5 = 1..5 /\ DOMAIN NopAtomic = 1..5
  BY PageAssumption
<1>3. page.loaded[k] = Nop5[3] /\ page.mem[k] = NopAtomic[3]
  BY <1>1, <1>2 DEF IsAtomicNop, HasAt
<1> QED
  BY <1>3, SiteAssumption DEF Changed, Toggled

\* the first byte that a form has, and the others
LEMMA FormBytes ==
  ASSUME NEW content, NEW k \in Nat, NEW form, DOMAIN form = 1..5, HasAt(content, k, form)
  PROVE  /\ content[k] = form[1]
         /\ \A j \in k..(k + 4) : content[j] = form[j - k + 1]
<1>1. ASSUME NEW j \in k..(k + 4) PROVE content[j] = form[j - k + 1]
  <2>1. j - k + 1 \in 1..5 /\ k + (j - k + 1) - 1 = j
    OBVIOUS
  <2> QED
    BY <2>1 DEF HasAt
<1>2. k \in k..(k + 4) /\ k - k + 1 = 1
  OBVIOUS
<1> QED
  BY <1>1, <1>2

\* windows of six bytes, which a site of five bytes never exceeds by four
LEMMA WindowCovers ==
  ASSUME TypeOK, NEW s \in page.sites, s.last = s.first + 4,
         NEW k \in Nat, k \in {s.first, s.first + 1}, Advance(k) \in {5, 6}
  PROVE  Covers(s, k)
BY SiteBounds DEF Covers

LEMMA LabelCovered ==
  ASSUME TypeOK, NEW s \in page.sites, IsLabelSite(page, s),
         NEW k \in Nat, FirstIn(s, k), Changed(k)
  PROVE  Covers(s, k)
<1> DEFINE first == s.first
<1>0. /\ first \in Nat /\ s.last = first + 4 /\ k \in first..(first + 4)
      /\ first \in page.labels
  BY SiteBounds DEF IsLabelSite, FirstIn
<1>1. /\ DOMAIN Nop5 = 1..5 /\ DOMAIN NopAtomic = 1..5
      /\ DOMAIN Jmp(page, first) = 1..5 /\ Jmp(page, first)[1] = "e9"
  BY PageAssumption DEF Jmp
<1>2. PICK form \in {Nop5, Jmp(page, first)} : HasAt(page.loaded, first, form)
  BY DEF IsLabelSite
<1>3. PICK form2 \in {Nop5, NopAtomic, Jmp(page, first)} : HasAt(page.mem, first, form2)
  BY DEF IsLabelSite
<1>4. /\ \A j \in first..(first + 4) : page.loaded[j] = form[j - first + 1]
      /\ \A j \in first..(first + 4) : page.mem[j] = form2[j - first + 1]
  <2>1. DOMAIN form = 1..5 /\ DOMAIN form2 = 1..5
    BY <1>1
  <2> HIDE DEF first
  <2>2. \A j \in first..(first + 4) : page.loaded[j] = form[j - first + 1]
    BY <1>0, <1>2, <2>1, FormBytes
  <2>3. \A j \in first..(first + 4) : page.mem[j] = form2[j - first + 1]
    BY <1>0, <1>3, <2>1, FormBytes
  <2> QED
    BY <2>2, <2>3
<1>5. IsValidJmpLabel(first)
  <2>1. CASE form2 \in {Nop5, NopAtomic}
    BY <2>1, <1>0, <1>3 DEF IsValidJmpLabel
  <2>2. CASE form2 = Jmp(page, first)
    <3>1. page.mem[first] = "e9"
      BY <2>2, <1>0, <1>1, <1>3, FormBytes
    <3>2. page.target[first] \in [1..4 -> Bytes]
      BY <1>0, SiteBounds DEF TypeOK, Page
    <3>3. ASSUME NEW j \in 1..4
          PROVE  page.mem[first + 1 + j - 1] = page.target[first][j]
      <4>1. first + j \in first..(first + 4) /\ (first + j) - first + 1 = j + 1
        BY <1>0
      <4>2. page.mem[first + j] = Jmp(page, first)[j + 1]
        BY <4>1, <1>4, <2>2
      <4>3. Jmp(page, first)[j + 1] = page.target[first][j]
        <5>1. j + 1 \in 1..5 /\ j + 1 # 1 /\ j + 1 - 1 = j
          OBVIOUS
        <5> QED
          BY <5>1 DEF Jmp
      <4>4. first + 1 + j - 1 = first + j
        BY <1>0
      <4> QED
        BY <4>2, <4>3, <4>4
    <3>4. HasAt(page.mem, first + 1, page.target[first])
      BY <3>2, <3>3 DEF HasAt
    <3> QED
      BY <3>1, <3>4, <1>0 DEF IsValidJmpLabel
  <2> QED
    BY <2>1, <2>2, <1>3
<1>6. CASE Changed(first)
  <2>1. k = first
    BY <1>0, <1>6 DEF FirstIn
  <2>2. ~Toggled(page, first, "66", "90")
    <3>1. page.loaded[first] = form[1] /\ page.mem[first] = form2[1]
      BY <1>0, <1>1, <1>2, <1>3, FormBytes
    <3>2. form[1] # form2[1]
      BY <3>1, <1>6 DEF Changed
    <3>3. Nop5[1] = NopAtomic[1]
      BY SiteAssumption
    <3>4. form[1] = "e9" \/ form2[1] = "e9"
      BY <3>2, <3>3, <1>1, <1>2, <1>3
    <3> QED
      BY <3>1, <3>4 DEF Toggled
  <2>3. Advance(first) = 6
    BY <1>5, <2>2 DEF Advance, IsSplitNop
  <2> QED
    BY <2>1, <2>3, <1>0, WindowCovers
<1>7. CASE ~Changed(first)
  <2>1. form[1] = form2[1]
    <3>1. page.loaded[first] = form[1] /\ page.mem[first] = form2[1]
      BY <1>0, <1>1, <1>2, <1>3, FormBytes
    <3> QED
      BY <3>1, <1>7 DEF Changed
  <2>2. form # form2
    BY <1>0, <1>4 DEF Changed
  <2>3. Nop5[1] # "e9" /\ NopAtomic[1] # "e9"
    BY SiteAssumption
  <2>4. form = Nop5 /\ form2 = NopAtomic
    BY <2>1, <2>2, <2>3, <1>1, <1>2, <1>3
  <2>5. ASSUME NEW j \in first..(first + 4), Changed(j) PROVE j = first + 2
    <3>1. Nop5[j - first + 1] # NopAtomic[j - first + 1]
      BY <2>4, <2>5, <1>4 DEF Changed
    <3>2. j - first + 1 \in 1..5
      BY <1>0
    <3>3. j - first + 1 = 3
      BY <3>1, <3>2, SiteAssumption
    <3> QED
      BY <3>3, <1>0
  <2>6. k = first + 2 /\ k > 1 /\ k - 2 = first
    BY <2>5, <1>0
  <2>7. IsAtomicNop(k)
    BY <2>6, <2>4, <1>2, <1>3 DEF IsAtomicNop
  <2>8. Advance(k) = 6
    BY <2>7 DEF Advance
  <2> QED
    BY <2>6, <2>8, <1>0 DEF Covers
<1> QED
  BY <1>6, <1>7

LEMMA LockCovered ==
  ASSUME TypeOK, NEW s \in page.sites, IsLockSite(page, s),
         NEW k \in Nat, FirstIn(s, k), Changed(k)
  PROVE  Covers(s, k)
<1>1. k = s.first /\ k = s.last
  BY SiteBounds DEF IsLockSite, FirstIn
<1>2. page.loaded[k] \in {"3e", "f0"} /\ page.mem[k] \in {"3e", "f0"}
  BY <1>1 DEF IsLockSite
<1>3. Toggled(page, k, "3e", "f0") /\ ~Toggled(page, k, "66", "90")
  BY <1>2 DEF Toggled, Changed
<1>4. IsSmpLock(k)
  BY <1>1, <1>3 DEF IsSmpLock, IsLockSite
<1>5. ~IsAtomicNop(k) /\ ~IsSplitNop(k)
  BY <1>3, AtomicBytes DEF IsSplitNop
<1>6. ~IsShortNop(k)
  <2>1. HasAt(page.loaded, k, <<"0f", "1f", "44", "00", "00">>) => page.loaded[k] = "0f"
    BY FormBytes
  <2> QED
    BY <2>1, <1>2 DEF IsShortNop
<1>7. ~IsValidJmpLabel(k) /\ ~IsUnrolledCall(k)
  BY <1>1 DEF IsLockSite, IsValidJmpLabel, IsUnrolledCall
<1>8. Advance(k) = 1
  BY <1>4, <1>5, <1>6, <1>7 DEF Advance
<1> QED
  BY <1>1, <1>8 DEF Covers

LEMMA ReplacedCovered ==
  ASSUME TypeOK, NEW s \in page.sites, IsReplacedSite(page, s),
         NEW k \in Nat, FirstIn(s, k), Changed(k)
  PROVE  Covers(s, k)
<1> DEFINE first == s.first
<1>0. first \in Nat /\ s.last = first + 4 /\ k \in first..(first + 4)
  BY SiteBounds DEF IsReplacedSite, FirstIn
<1>1. DOMAIN NopAtomic = 1..5 /\ NopAtomic[1] \in {"0f", "66"}
  BY PageAssumption, SiteAssumption
<1>2. /\ page.loaded[first] \in {"0f", "e9"}
      /\ page.mem[first] \in {"0f", "66"}
      /\ page.loaded[first] # page.mem[first]
      /\ IsShortNop(first) \/ IsEmptyJump(first)
  <2>1. CASE /\ HasAt(page.loaded, first, <<"0f", "1f", "44", "00", "00">>)
             /\ HasAt(page.mem, first, <<"66", "66", "66", "66", "90">>)
    <3>1. page.loaded[first] = "0f" /\ page.mem[first] = "66"
      BY <2>1, <1>0, FormBytes
    <3> QED
      BY <3>1, <2>1 DEF IsShortNop
  <2>2. CASE /\ HasAt(page.loaded, first, <<"e9", "00", "00", "00", "00">>)
             /\ HasAt(page.mem, first, NopAtomic)
    <3>1. page.loaded[first] = "e9" /\ page.mem[first] = NopAtomic[1]
      BY <2>2, <1>0, <1>1, FormBytes
    <3> QED
      BY <3>1, <2>2, <1>1 DEF IsEmptyJump
  <2> QED
    BY <2>1, <2>2 DEF IsReplacedSite
<1>3. k = first
  BY <1>0, <1>2 DEF FirstIn, Changed
<1>4. ~IsSplitNop(first) /\ ~IsSmpLock(first)
  BY <1>2 DEF IsSplitNop, IsSmpLock, Toggled
<1>5. Advance(first) \in {5, 6}
  BY <1>2, <1>4 DEF Advance
<1> QED
  BY <1>3, <1>5, <1>0, WindowCovers

LEMMA SplitCovered ==
  ASSUME TypeOK, NEW s \in page.sites, IsSplitSite(page, s),
         NEW k \in Nat, FirstIn(s, k), Changed(k)
  PROVE  Covers(s, k)
<1>1. PICK c \in 0..1 : /\ c <= s.last
                        /\ Toggled(page, c, "66", "90")
                        /\ \A j \in (0..s.last) \ {c} : page.loaded[j] = page.mem[j]
  BY DEF IsSplitSite
<1>2. k \in 0..s.last /\ s.last \in Nat
  BY SiteBounds DEF IsSplitSite, FirstIn
<1>3. k = c
  BY <1>1, <1>2 DEF Changed
<1>4. IsSplitNop(k) /\ ~IsAtomicNop(k)
  BY <1>1, <1>3 DEF IsSplitNop, IsAtomicNop
<1>5. Advance(k) = 1
  BY <1>4 DEF Advance
<1>6. ASSUME NEW j \in s.first..s.last, j >= k + 1 PROVE ~Changed(j)
  BY <1>1, <1>2, <1>3, <1>6 DEF Changed, IsSplitSite
<1> QED
  BY <1>2, <1>5, <1>6 DEF Covers

LEMMA UnrolledCovered ==
  ASSUME TypeOK, NEW s \in page.sites, IsUnrolledSite(page, s),
         NEW k \in Nat, FirstIn(s, k), Changed(k)
  PROVE  Covers(s, k)
<1> DEFINE first == s.first
<1>0. first \in Nat /\ s.last = first + 4 /\ k \in first..(first + 4)
  BY SiteBounds DEF IsUnrolledSite, FirstIn
<1>1. ~Changed(first) /\ Changed(first + 1)
  BY DEF IsUnrolledSite, Changed
<1>2. k = first + 1 /\ k > 0 /\ k - 1 = first
  BY <1>0, <1>1 DEF FirstIn
<1>3. IsUnrolledCall(k)
  BY <1>2 DEF IsUnrolledCall, IsUnrolledSite
<1>4. ~IsSplitNop(k)
  <2>1. k <= 1 => first = 0 /\ k = 1
    BY <1>2, <1>0
  <2> QED
    BY <2>1 DEF IsSplitNop, IsUnrolledSite
<1>5. Advance(k) \in {5, 6}
  BY <1>3, <1>4 DEF Advance
<1> QED
  BY <1>2, <1>5, <1>0, WindowCovers

LEMMA SiteCovered ==
  ASSUME TypeOK, Unmodified, NEW s \in page.sites,
         NEW k \in Nat, FirstIn(s, k), Changed(k)
  PROVE  Covers(s, k)
<1>1. \/ IsLabelSite(page, s) \/ IsLockSite(page, s) \/ IsReplacedSite(page, s)
      \/ IsSplitSite(page, s) \/ IsUnrolledSite(page, s)
  BY SiteAssumption DEF Unmodified
<1> QED
  BY <1>1, LabelCovered, LockCovered, ReplacedCovered, SplitCovered, UnrolledCovered

\* the sites of an unmodified page
LEMMA SitesOfPage ==
  ASSUME TypeOK, Unmodified
  PROVE  /\ \A k \in 0..(Size - 1) : Changed(k) => \E s \in page.sites : k \in s.first..s.last
         /\ \A s \in page.sites : s.last < Size
         /\ \A s \in page.sites : \A j, k \in s.first..s.last :
              j \in page.hypercall => k \in page.hypercall
         /\ \A s, t \in page.sites :
              s = t \/ t.first - s.last > 3 \/ s.first - t.last > 3
<1>1. page \in Pages
  BY DEF Unmodified
<1>2. \A k \in 0..(Size - 1) : Changed(k) => \E s \in page.sites : k \in s.first..s.last
  BY <1>1, SiteAssumption DEF Unmodified, Changed
<1>3. ASSUME NEW s \in page.sites, NEW t \in page.sites, s # t
      PROVE  t.first - s.last > 3 \/ s.first - t.last > 3
  BY <1>1, <1>3, SiteAssumption DEF Unmodified, SitesApart
<1> QED
  BY <1>2, <1>3 DEF Unmodified, SitesApart

LEMMA AheadInit == Init /\ TypeOK /\ Unmodified => AheadInSites
<1> SUFFICES ASSUME Init, TypeOK, Unmodified PROVE AheadInSites
  OBVIOUS
<1> SUFFICES ASSUME NEW k \in 0..(Size - 1), Changed(k)
             PROVE  \E s \in page.sites : k \in s.first..s.last
                      /\ \A j \in s.first..(i - 1) : ~Changed(j)
  BY DEF AheadInSites
<1>1. PICK s \in page.sites : k \in s.first..s.last
  BY SitesOfPage
<1>2. s.first..(i - 1) = {}
  BY SiteBounds DEF Init
<1> QED
  BY <1>1, <1>2

\* a byte that differs, at which no run goes on, is recognised
LEMMA CandidateCovered ==
  ASSUME TypeOK, Unmodified, AheadInSites, i < Size, Candidate
  PROVE  \E s \in page.sites : FirstIn(s, i) /\ Covers(s, i)
<1>1. i \in (0..(Size - 1)) \ page.hypercall /\ i \in Nat /\ Changed(i)
  BY SiteBounds DEF Candidate
<1>2. PICK s \in page.sites : i \in s.first..s.last
                              /\ \A j \in s.first..(i - 1) : ~Changed(j)
  BY <1>1 DEF AheadInSites
<1>3. FirstIn(s, i)
  BY <1>2 DEF FirstIn
<1> QED
  BY <1>1, <1>3, SiteCovered

LEMMA AheadNextByte ==
  ASSUME TypeOK, Unmodified, AheadInSites, NextByte
  PROVE  AheadInSites'
<1>1. i' = i + 1 /\ page' = page /\ i < Size /\ ~Candidate
  BY DEF NextByte
<1>2. i \in Nat /\ Size \in Nat /\ i \in 0..(Size - 1)
  BY <1>1, SiteBounds
<1>3. i \notin page.hypercall => ~Changed(i)
  <2> SUFFICES ASSUME Changed(i), i \notin page.hypercall PROVE FALSE
    OBVIOUS
  <2>1. i > 0 /\ Changed(i - 1)
    BY <1>1, <1>2 DEF Candidate, FirstOfRun
  <2>2. PICK s \in page.sites : i \in s.first..s.last
                                /\ \A j \in s.first..(i - 1) : ~Changed(j)
    BY <1>2 DEF AheadInSites
  <2>3. i - 1 \in 0..(Size - 1)
    BY <2>1, <1>2
  <2>4. PICK t \in page.sites : i - 1 \in t.first..t.last
    BY <2>1, <2>3, SitesOfPage
  <2>5. i = s.first
    BY <2>1, <2>2, <1>2, SiteBounds
  <2>6. t.last >= s.first - 1 /\ t.first < s.first /\ s.first <= s.last
    BY <2>2, <2>4, <2>5, <1>2, SiteBounds
  <2>7. t # s
    BY <2>6, SiteBounds
  <2>8. t.first - s.last > 3 \/ s.first - t.last > 3
    BY <2>7, SitesOfPage
  <2> QED
    BY <2>6, <2>8, SiteBounds
<1> SUFFICES ASSUME NEW k \in (0..(Size - 1)) \ page.hypercall, k >= i + 1, Changed(k)
             PROVE  \E s \in page.sites : k \in s.first..s.last
                      /\ \A j \in s.first..i : ~Changed(j)
  BY <1>1, <1>2 DEF AheadInSites, Changed
<1>4. PICK s \in page.sites : k \in s.first..s.last
                              /\ \A j \in s.first..(i - 1) : ~Changed(j)
  BY <1>2 DEF AheadInSites
<1>5. \A j \in s.first..i : ~Changed(j)
  <2> SUFFICES ASSUME NEW j \in s.first..i PROVE ~Changed(j)
    OBVIOUS
  <2>1. j = i \/ j \in s.first..(i - 1)
    BY <1>2, SiteBounds
  <2>2. j = i => i \notin page.hypercall
    <3>1. j \in s.first..s.last
      BY <1>2, <1>4, SiteBounds
    <3> QED
      BY <3>1, <1>4, SitesOfPage
  <2> QED
    BY <2>1, <2>2, <1>3, <1>4
<1> QED
  BY <1>4, <1>5

LEMMA AheadAccept ==
  ASSUME TypeOK, Unmodified, AheadInSites, AcceptChange
  PROVE  AheadInSites'
<1>1. i' = i + Advance(i) /\ page' = page /\ i < Size /\ Candidate
  BY DEF AcceptChange
<1>2. i \in Nat /\ Size \in Nat /\ Advance(i) \in Nat
  BY SiteBounds, AdvanceRange
<1>3. PICK s \in page.sites : FirstIn(s, i) /\ Covers(s, i)
  BY <1>1, CandidateCovered
<1> DEFINE resume == i + Advance(i)
<1>4. resume \in Nat /\ i < resume /\ resume <= s.last + 4
  BY <1>2, <1>3 DEF Covers
<1>5. \A j \in s.first..s.last : j >= resume => ~Changed(j)
  BY <1>3 DEF Covers
<1> HIDE DEF resume
<1> SUFFICES ASSUME NEW k \in (0..(Size - 1)) \ page.hypercall, k >= resume, Changed(k)
             PROVE  \E t \in page.sites : k \in t.first..t.last
                      /\ \A j \in t.first..(resume - 1) : ~Changed(j)
  BY <1>1, <1>4 DEF AheadInSites, Changed, resume
<1>6. PICK t \in page.sites : k \in t.first..t.last
                              /\ \A j \in t.first..(i - 1) : ~Changed(j)
  BY <1>2, <1>4 DEF AheadInSites
<1>7. s # t
  BY <1>5, <1>6
<1>8. i \in s.first..s.last
  BY <1>3 DEF FirstIn
<1>9. t.first - s.last > 3
  BY <1>2, <1>4, <1>6, <1>7, <1>8, SitesOfPage, SiteBounds
<1>10. t.first..(resume - 1) = {}
  BY <1>4, <1>9, SiteBounds
<1> QED
  BY <1>6, <1>10

(***************************************************************************)
(* A page that differs only in what the guest patches is never reported,   *)
(* whatever the sites and their states, as long as three untouched bytes   *)
(* lie between two of them and none crosses the end of the page or a border*)
(* of the hypercall page.                                                  *)
(***************************************************************************)
THEOREM NoneReportedFalsely == Spec => []NoFalseAlarm
<1> DEFINE FalseAlarmInv ==
      /\ page \in Pages
      /\ Unmodified => AheadInSites /\ verdict # "changed"
<1>1. Init => TypeOK /\ FalseAlarmInv
  BY TypeInit, AheadInit DEF Init
<1>2. TypeOK /\ FalseAlarmInv /\ [Next]_vars => TypeOK' /\ FalseAlarmInv'
  <2>1. ASSUME [Next]_vars PROVE page' = page
    BY <2>1 DEF Next, GetPage, Step, NextByte, AcceptChange, StopAtUninitialised,
           ReportChange, PageDone, vars
  <2> SUFFICES ASSUME TypeOK, FalseAlarmInv, [Next]_vars, Unmodified'
               PROVE  AheadInSites' /\ (verdict # "changed")'
    BY <2>1, TypeStep
  <2>2. Unmodified /\ AheadInSites /\ verdict # "changed"
    BY <2>1 DEF Unmodified, SitesApart
  <2>3. CASE UNCHANGED <<page, i>> /\ verdict' # "changed"
    BY <2>2, <2>3 DEF AheadInSites, Changed
  <2>4. CASE NextByte
    BY <2>2, <2>4, AheadNextByte DEF NextByte
  <2>5. CASE AcceptChange
    BY <2>2, <2>5, AheadAccept DEF AcceptChange
  <2>6. CASE ReportChange
    <3>1. PICK s \in page.sites : Covers(s, i)
      BY <2>2, <2>6, CandidateCovered DEF ReportChange
    <3> QED
      BY <3>1, <2>6 DEF ReportChange, Covers
  <2> QED
    BY <2>2, <2>3, <2>4, <2>5, <2>6
    DEF Next, GetPage, Step, StopAtUninitialised, PageDone, vars
<1>3. FalseAlarmInv => NoFalseAlarm
  BY DEF NoFalseAlarm, Unmodified
<1> QED
  BY <1>1, <1>2, <1>3, PTL DEF Spec

-----------------------------------------------------------------------------
(* ProcessValidator::validateCodePage.                                     *)

\* what the two histories hold while a vector is read and compared: the page
\* that ended the read is the only one at or behind bytesChecked
LookedAt ==
  /\ label \in {"read", "compare"} =>
       /\ bytesChecked < TextPages
       /\ codevma = 0 \/ bytesChecked + codevma <= SpacePages
       /\ TextPages <= vmaPages => bytesChecked + codevma <= vmaPages
       /\ \A p \in TextRange : p \in compared => p < bytesChecked
  /\ label \in {"while", "read"} =>
       \A p \in TextRange : p \in compared \cup absent => p < bytesChecked
  /\ label = "read" => codevma <= ToRead
  /\ label = "compare" =>
       /\ bytesChecked + codevma \in absent \cup {vmaPages}
       /\ \A p \in TextRange :
            p \in absent => p < bytesChecked \/ p = bytesChecked + codevma
  /\ label = "intact" => TextPages <= bytesChecked

Accounted ==
  /\ \A p \in TextRange :
       p < bytesChecked => p \in compared \cup absent \cup {vmaPages}
  /\ compared \cap differs = {}
  /\ compared \cap absent = {}

UserInv == UserTypeOK /\ LookedAt /\ Accounted

-----------------------------------------------------------------------------
LEMMA UserInvInit == UserInit => UserInv
<1> SUFFICES ASSUME UserInit PROVE UserInv
  OBVIOUS
<1>1. /\ vmaPages \in VmaSizes /\ vmaPages \in Nat
      /\ present \in SUBSET SpaceRange /\ differs \in SUBSET TextRange
      /\ bytesChecked = 0 /\ codevma = 0 /\ label = "while"
      /\ compared = {} /\ absent = {}
  BY SizeAssumption DEF UserInit
<1>2. UserTypeOK
  BY <1>1, SizeAssumption DEF UserTypeOK
<1>3. LookedAt /\ Accounted
  BY <1>1 DEF LookedAt, Accounted, TextRange
<1> QED
  BY <1>2, <1>3 DEF UserInv

LEMMA PageStep == UserInv /\ PageInOrOut => UserInv'
<1> SUFFICES ASSUME UserInv, PageInOrOut PROVE UserInv'
  OBVIOUS
<1>1. UNCHANGED <<vmaPages, differs, bytesChecked, codevma, label, compared, absent>>
  BY DEF PageInOrOut, history
<1>2. present' \subseteq SpaceRange
  BY DEF PageInOrOut, UserInv, UserTypeOK
<1> QED
  BY <1>1, <1>2 DEF UserInv, UserTypeOK, LookedAt, Accounted, TextRange, SpaceRange, ToRead

LEMMA WhileStep == UserInv /\ While => UserInv'
<1> SUFFICES ASSUME UserInv, While PROVE UserInv'
  OBVIOUS
<1>1. /\ label = "while"
      /\ label' = IF bytesChecked < TextPages THEN "read" ELSE "intact"
      /\ codevma' = 0
      /\ UNCHANGED <<vmaPages, present, differs, bytesChecked, compared, absent>>
  BY DEF While, guest, history
<1>2. bytesChecked \in Nat /\ vmaPages \in Nat /\ TextPages \in Nat /\ SpacePages \in Nat
  BY SizeAssumption DEF UserInv, UserTypeOK
<1>3. UserTypeOK'
  BY <1>1, <1>2 DEF UserInv, UserTypeOK, TextRange, SpaceRange
<1>4. LookedAt'
  <2>1. label' = "read" => codevma' <= ToRead'
    BY <1>1, <1>2, SizeAssumption DEF ToRead
  <2> QED
    BY <2>1, <1>1, <1>2 DEF UserInv, UserTypeOK, LookedAt, TextRange
<1>5. Accounted'
  BY <1>1 DEF UserInv, Accounted, TextRange
<1> QED
  BY <1>3, <1>4, <1>5 DEF UserInv

LEMMA ReadPageStep == UserInv /\ ReadPage => UserInv'
<1> SUFFICES ASSUME UserInv, ReadPage PROVE UserInv'
  OBVIOUS
<1>1. /\ label = "read" /\ label' = "read"
      /\ codevma < ToRead
      /\ bytesChecked + codevma \in present
      /\ codevma' = codevma + 1
      /\ UNCHANGED <<vmaPages, present, differs, bytesChecked, compared, absent>>
  BY DEF ReadPage, guest, history
<1>2. /\ bytesChecked \in Nat /\ codevma \in Nat /\ vmaPages \in Nat
      /\ TextPages \in Nat /\ SpacePages \in Nat
  BY SizeAssumption DEF UserInv, UserTypeOK
<1>3. bytesChecked + codevma' <= SpacePages
  BY <1>1, <1>2 DEF UserInv, UserTypeOK, SpaceRange
<1>4. TextPages <= vmaPages => bytesChecked + codevma' <= vmaPages
  BY <1>1, <1>2 DEF ToRead, UserInv, UserTypeOK
<1>5. UserTypeOK'
  BY <1>1, <1>2, <1>3, <1>4 DEF UserInv, UserTypeOK, TextRange, SpaceRange
<1>6. LookedAt'
  <2>1. codevma' <= ToRead'
    BY <1>1, <1>2, SizeAssumption DEF ToRead
  <2> QED
    BY <2>1, <1>1, <1>3, <1>4 DEF UserInv, LookedAt, TextRange
<1>7. Accounted'
  BY <1>1 DEF UserInv, Accounted, TextRange
<1> QED
  BY <1>5, <1>6, <1>7 DEF UserInv

LEMMA ReadThrowsStep == UserInv /\ ReadThrows => UserInv'
<1> SUFFICES ASSUME UserInv, ReadThrows PROVE UserInv'
  OBVIOUS
<1>1. /\ label' = "thrown" /\ bytesChecked > vmaPages
      /\ UNCHANGED <<vmaPages, present, differs, bytesChecked, codevma, compared, absent>>
  BY DEF ReadThrows, guest, history
<1>2. bytesChecked \in Nat /\ vmaPages \in Nat /\ TextPages \in Nat
  BY SizeAssumption DEF UserInv, UserTypeOK
<1> QED
  BY <1>1, <1>2 DEF UserInv, UserTypeOK, LookedAt, Accounted, TextRange, SpaceRange, ToRead

LEMMA ReadEndsStep == UserInv /\ ReadEnds => UserInv'
<1> SUFFICES ASSUME UserInv, ReadEnds PROVE UserInv'
  OBVIOUS
<1> DEFINE end == bytesChecked + codevma
<1>1. /\ label = "read" /\ label' = "compare"
      /\ codevma = ToRead \/ end \notin present
      /\ absent' = absent \cup {p \in {end} : codevma < ToRead}
      /\ UNCHANGED <<vmaPages, present, differs, bytesChecked, codevma, compared>>
  BY DEF ReadEnds, guest
<1>2. /\ bytesChecked \in Nat /\ codevma \in Nat /\ end \in Nat /\ vmaPages \in Nat
      /\ TextPages \in Nat /\ SpacePages \in Nat /\ WordPages \in Nat
      /\ TextPages + SpacePages <= WordPages
      /\ bytesChecked < TextPages /\ codevma <= SpacePages
  BY <1>1, SizeAssumption DEF UserInv, UserTypeOK, LookedAt
<1>3. \A p : p \in absent' <=> p \in absent \/ (p = end /\ codevma < ToRead)
  BY <1>1
\* a length that has wrapped around is never reached
<1>4. codevma = ToRead => end = vmaPages
  BY <1>2 DEF ToRead
<1>5. end \in absent' \cup {vmaPages}
  <2>1. codevma < ToRead \/ codevma = ToRead
    BY <1>1, <1>2 DEF ToRead, UserInv, LookedAt
  <2> QED
    BY <2>1, <1>3, <1>4
<1>6. UserTypeOK'
  <2>1. end \in 0..(TextPages + SpacePages)
    BY <1>2
  <2>2. absent' \subseteq 0..(TextPages + SpacePages)
    <3> SUFFICES ASSUME NEW p \in absent' PROVE p \in 0..(TextPages + SpacePages)
      OBVIOUS
    <3>1. p \in absent \/ p = end
      BY <1>3
    <3>2. absent \subseteq 0..(TextPages + SpacePages)
      BY DEF UserInv, UserTypeOK
    <3> QED
      BY <3>1, <3>2, <2>1
  <2> QED
    BY <1>1, <2>2 DEF UserInv, UserTypeOK, TextRange, SpaceRange
<1>7. LookedAt'
  BY <1>1, <1>2, <1>3, <1>5 DEF UserInv, LookedAt, TextRange
<1>8. Accounted'
  <2>1. ASSUME NEW p \in TextRange, p < bytesChecked
        PROVE  p \in compared \cup absent' \cup {vmaPages}
    BY <2>1, <1>3 DEF UserInv, Accounted
  <2>2. compared \cap absent' = {}
    <3> SUFFICES ASSUME NEW p \in compared PROVE p \notin absent'
      OBVIOUS
    <3>1. p \notin absent
      BY DEF UserInv, Accounted
    <3>2. p < bytesChecked /\ p \in TextRange
      BY <1>1 DEF UserInv, UserTypeOK, LookedAt
    <3>3. p # end
      BY <3>2, <1>2 DEF TextRange
    <3> QED
      BY <3>1, <3>3, <1>3
  <2> QED
    BY <2>1, <2>2, <1>1 DEF UserInv, Accounted
<1> QED
  BY <1>6, <1>7, <1>8 DEF UserInv

LEMMA MismatchStep == UserInv /\ Mismatch => UserInv'
<1> SUFFICES ASSUME UserInv, Mismatch PROVE UserInv'
  OBVIOUS
<1>1. /\ label' = "mismatch"
      /\ UNCHANGED <<vmaPages, present, differs, bytesChecked, codevma, compared, absent>>
  BY DEF Mismatch, guest, history
<1> QED
  BY <1>1 DEF UserInv, UserTypeOK, LookedAt, Accounted, TextRange, SpaceRange, ToRead

LEMMA ChunkIntactStep == UserInv /\ ChunkIntact => UserInv'
<1> SUFFICES ASSUME UserInv, ChunkIntact PROVE UserInv'
  OBVIOUS
<1> DEFINE end == bytesChecked + codevma
<1>1. /\ label = "compare" /\ label' = "while"
      /\ Chunk \cap differs = {}
      /\ compared' = compared \cup Chunk
      /\ bytesChecked' = IF end < TextPages THEN end + 1 ELSE end
      /\ UNCHANGED <<vmaPages, present, differs, codevma, absent>>
  BY DEF ChunkIntact, Skip, guest
<1>2. /\ bytesChecked \in Nat /\ codevma \in Nat /\ end \in Nat /\ vmaPages \in Nat
      /\ TextPages \in Nat /\ SpacePages \in Nat
      /\ bytesChecked < TextPages
      /\ codevma = 0 \/ end <= SpacePages
      /\ TextPages <= vmaPages => end <= vmaPages
  BY <1>1, SizeAssumption DEF UserInv, UserTypeOK, LookedAt
<1>3. \A p : p \in Chunk <=> p \in TextRange /\ bytesChecked <= p /\ p < end
  BY DEF Chunk
<1>4. end \in absent \cup {vmaPages}
  BY <1>1 DEF UserInv, LookedAt
<1>5. UserTypeOK'
  <2>1. compared' \subseteq TextRange
    BY <1>1, <1>3 DEF UserInv, UserTypeOK
  <2>2. /\ bytesChecked' \in 0..(TextPages + SpacePages)
        /\ TextPages <= vmaPages => bytesChecked' <= vmaPages
    BY <1>1, <1>2
  <2> QED
    BY <1>1, <2>1, <2>2 DEF UserInv, UserTypeOK, TextRange, SpaceRange
<1>6. \A p \in TextRange : p \in absent => p < bytesChecked \/ p = end
  BY <1>1 DEF UserInv, LookedAt
<1>7. LookedAt'
  <2>1. ASSUME NEW p \in TextRange, p \in compared' \cup absent
        PROVE  p < bytesChecked'
    <3>1. CASE p \in compared
      <4>1. p < bytesChecked
        BY <3>1, <1>1 DEF UserInv, LookedAt
      <4> QED
        BY <4>1, <1>1, <1>2 DEF TextRange
    <3>2. CASE p \in Chunk
      BY <3>2, <1>1, <1>2, <1>3 DEF TextRange
    <3>3. CASE p \in absent
      BY <3>3, <1>1, <1>2, <1>6 DEF TextRange
    <3> QED
      BY <2>1, <3>1, <3>2, <3>3, <1>1
  <2> QED
    BY <2>1, <1>1 DEF LookedAt
<1>8. Accounted'
  <2>1. ASSUME NEW p \in TextRange, p < bytesChecked'
        PROVE  p \in compared' \cup absent \cup {vmaPages}
    <3>1. CASE p < bytesChecked
      BY <3>1, <1>1 DEF UserInv, Accounted
    <3>2. CASE bytesChecked <= p /\ p < end
      BY <3>2, <1>1, <1>3
    <3>3. CASE p = end
      BY <3>3, <1>4
    <3> QED
      BY <2>1, <3>1, <3>2, <3>3, <1>1, <1>2 DEF TextRange
  <2>2. compared' \cap differs = {}
    BY <1>1 DEF UserInv, Accounted
  <2>3. Chunk \cap absent = {}
    BY <1>2, <1>3, <1>6 DEF TextRange
  <2> QED
    BY <2>1, <2>2, <2>3, <1>1 DEF UserInv, Accounted
<1> QED
  BY <1>5, <1>7, <1>8 DEF UserInv

LEMMA UserInvStep == UserInv /\ [UserNext]_userVars => UserInv'
<1>1. UserInv /\ UNCHANGED userVars => UserInv'
  BY DEF userVars, guest, history, UserInv, UserTypeOK, LookedAt, Accounted, ToRead
<1> QED
  BY <1>1, PageStep, WhileStep, ReadPageStep, ReadThrowsStep, ReadEndsStep,
     MismatchStep, ChunkIntactStep
  DEF UserNext, Validate

LEMMA UserInvHolds == UserSpec => []UserInv
BY UserInvInit, UserInvStep, PTL DEF UserSpec

-----------------------------------------------------------------------------
(***************************************************************************)
(* The variables keep their types.  Nothing is read from behind a mapping  *)
(* that has all of the text, and its reads never throw; of a smaller one,  *)
(* the counter and the reads stay within the address space, though the     *)
(* length that is asked for wraps around.                                  *)
(***************************************************************************)
THEOREM ReadsStayInMapping == UserSpec => []UserTypeOK
<1>1. UserInv => UserTypeOK
  BY DEF UserInv
<1> QED
  BY <1>1, UserInvHolds, PTL

(***************************************************************************)
(* A page of text that is not compared was not in memory when it was to be *)
(* read, or is directly behind a mapping that is smaller than the text, and*)
(* an intact mapping differs from the file only in such pages.             *)
(***************************************************************************)
THEOREM OnlyAbsentPagesPass == UserSpec => []OnlyAbsentUnchecked
<1>1. UserInv => OnlyAbsentUnchecked
  <2> SUFFICES ASSUME UserInv PROVE OnlyAbsentUnchecked
    OBVIOUS
  <2>1. ASSUME label = "intact", NEW p \in differs
        PROVE  p \in absent \cup {vmaPages}
    <3>1. p \in TextRange /\ TextPages <= bytesChecked /\ bytesChecked \in Nat
      BY <2>1, SizeAssumption DEF UserInv, UserTypeOK, LookedAt
    <3>2. p < bytesChecked
      BY <3>1, SizeAssumption DEF TextRange
    <3> QED
      BY <3>1, <3>2 DEF UserInv, Accounted
  <2> QED
    BY <2>1 DEF UserInv, Accounted, OnlyAbsentUnchecked
<1> QED
  BY <1>1, UserInvHolds, PTL

(***************************************************************************)
(* No page of text is both compared and given up as absent.                *)
(***************************************************************************)
THEOREM NoPageLookedAtTwice == UserSpec => []LookedAtOnce
<1>1. UserInv => LookedAtOnce
  BY DEF UserInv, LookedAt, Accounted, LookedAtOnce
<1> QED
  BY <1>1, UserInvHolds, PTL
=============================================================================
