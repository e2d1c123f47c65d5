---------------------------- MODULE EvidenceProofs ----------------------------
(***************************************************************************)
(* Facts about the contents of capture directories that the proofs about   *)
(* Capture and Analyze share.                                              *)
(***************************************************************************)
EXTENDS Evidence, SequenceTheorems, TLAPS

\* Every artifact line has a role and a fingerprint.
LEMMA LineType ==
    ASSUME NEW role \in Roles, NEW content \in Content
    PROVE  Line(role, content) \in Lines
<1>1. content.whole \in BOOLEAN /\ content.chunks \in SUBSET Captures
  BY DEF Content
<1>2. Bytes(role, content) \in Prints
  <2>1. CASE role = "manifest"
    BY <2>1 DEF Bytes, Prints, LogRoles
  <2>2. CASE role \in LogRoles
    BY <2>2, <1>1 DEF Bytes, Prints, LogRoles
  <2>3. CASE role # "manifest" /\ role \notin LogRoles
    BY <2>3, <1>1 DEF Bytes, Prints
  <2> QED
    BY <2>1, <2>2, <2>3
<1> QED
  BY <1>2 DEF Line, Lines

\* RoleOrder lists roles.
LEMMA RoleOrderType == Len(RoleOrder) = 7 /\ \A i \in 1 .. 7 : RoleOrder[i] \in Roles
BY DEF RoleOrder, Roles

\* A file as it was at some time, and the same file now: nobody truncated it,
\* and what was appended is still there.
Grown(old, new) ==
    /\ old.by = new.by
    /\ old.whole = new.whole
    /\ old.chunks \subseteq new.chunks

\* A file grows in steps.
LEMMA GrownTransitive ==
    ASSUME NEW x, NEW y, NEW z, Grown(x, y), Grown(y, z)
    PROVE  Grown(x, z)
BY DEF Grown

\* If the fingerprint of a file that only grew is what it was, it is also
\* what it was of every state in between, however little a fingerprint tells
\* of who wrote.
LEMMA FingerprintBetween ==
    ASSUME NEW role \in Roles,
           NEW x \in Content, NEW y \in Content, NEW z \in Content,
           Grown(x, y), Grown(y, z), Bytes(role, x) = Bytes(role, z)
    PROVE  Bytes(role, y) = Bytes(role, x)
<1>1. \A c \in Content :
         /\ role = "manifest" => Bytes(role, c) = c
         /\ role \in LogRoles =>
               Bytes(role, c) = [whole |-> c.whole, chunks |-> c.chunks]
         /\ role # "manifest" /\ role \notin LogRoles =>
               Bytes(role, c) = [whole |-> c.whole, empty |-> c.chunks = {}]
  BY DEF Bytes, LogRoles
<1>2. CASE role = "manifest"
  <2>1. x = z
    BY <1>1, <1>2
  <2>2. y.by = x.by /\ y.whole = x.whole /\ y.chunks = x.chunks
    BY <2>1 DEF Grown
  <2>3. x = y
    BY <2>2 DEF Content
  <2> QED
    BY <2>3
<1>3. CASE role \in LogRoles
  <2>1. [whole |-> x.whole, chunks |-> x.chunks]
          = [whole |-> z.whole, chunks |-> z.chunks]
    BY <1>1, <1>3
  <2>2. x.chunks = z.chunks
    BY <2>1
  <2>3. y.whole = x.whole /\ y.chunks = x.chunks
    BY <2>2 DEF Grown
  <2> QED
    BY <1>1, <1>3, <2>3
<1>4. CASE role # "manifest" /\ role \notin LogRoles
  <2>1. [whole |-> x.whole, empty |-> x.chunks = {}]
          = [whole |-> z.whole, empty |-> z.chunks = {}]
    BY <1>1, <1>4
  <2>2. (x.chunks = {}) <=> (z.chunks = {})
    BY <2>1
  <2>3. y.whole = x.whole /\ ((y.chunks = {}) <=> (x.chunks = {}))
    BY <2>2 DEF Grown
  <2>4. (y.chunks = {}) = (x.chunks = {})
    BY <2>3
  <2> QED
    BY <1>1, <1>4, <2>3, <2>4
<1> QED
  BY <1>2, <1>3, <1>4

\* A fingerprint tells of every file whether anything was written to it.
LEMMA FingerprintShowsWhetherEmpty ==
    ASSUME NEW role \in Roles, NEW x \in Content, NEW y \in Content,
           Bytes(role, x) = Bytes(role, y)
    PROVE  x.chunks = {} <=> y.chunks = {}
<1>1. CASE role = "manifest"
  BY <1>1 DEF Bytes
<1>2. CASE role \in LogRoles
  <2>1. [whole |-> x.whole, chunks |-> x.chunks]
          = [whole |-> y.whole, chunks |-> y.chunks]
    BY <1>2 DEF Bytes, LogRoles
  <2> QED
    BY <2>1
<1>3. CASE role # "manifest" /\ role \notin LogRoles
  <2>1. [whole |-> x.whole, empty |-> x.chunks = {}]
          = [whole |-> y.whole, empty |-> y.chunks = {}]
    BY <1>3 DEF Bytes
  <2> QED
    BY <2>1
<1> QED
  BY <1>1, <1>2, <1>3
=============================================================================
