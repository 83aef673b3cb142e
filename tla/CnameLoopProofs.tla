-------------------------- MODULE CnameLoopProofs --------------------------
(***************************************************************************)
(* The search of closesCNAMELoop is right for every index: it answers yes  *)
(* exactly when the alias is in every set of names that holds the target   *)
(* and is closed under the CNAMEs.                                         *)
(***************************************************************************)
EXTENDS CnameLoop, TLAPS

\* What the CNAMEs can be followed to from the target, and nothing else, is on
\* the stack or has been seen; and what has been seen has been followed.
Reached(names) ==
    \A R \in SUBSET Name :
        Canon[target] \in R /\ ClosedUnder(index, R) => names \subseteq R

SearchInv ==
    /\ TypeOK
    /\ result = "none" =>
          /\ Canon[target] \in next \cup seen
          /\ Canon[alias] \notin seen
          /\ \A s \in Aliases(index) :
                 index[s].Name \in seen => index[s].Value \in next \cup seen
          /\ \A name \in next : Canon[name] = name
          /\ Reached(next \cup seen)
    /\ AnswersRight

\* The CNAMEs of an index are canonical, and so are the names they lead to.
LEMMA CanonicalAliases ==
    ASSUME NEW idx \in Index, NEW s \in Aliases(idx)
    PROVE  /\ idx[s].Name \in Name /\ idx[s].Value \in Name
           /\ Canon[idx[s].Name] = idx[s].Name /\ Canon[idx[s].Value] = idx[s].Value
<1>1. /\ s \in Section /\ idx[s] # Absent /\ idx[s].Type = "CNAME"
      /\ idx \in Config /\ Canonical(idx[s]) = idx[s]
  BY IndexAssumption DEF Aliases
<1>2. idx[s] \in [Type : {"CNAME"}, Name : Name, Value : Name, Owner : Owner]
  BY <1>1 DEF Config, DNSRecord
<1>3. /\ Canonical(idx[s]).Name = Canon[idx[s].Name]
      /\ Canonical(idx[s]).Value = Canon[idx[s].Value]
  BY <1>2 DEF Canonical
<1>4. QED
  BY <1>1, <1>2, <1>3

\* The names a name leads to, when it is spelled canonically.
LEMMA TargetsFollowed ==
    ASSUME TypeOK, NEW name \in Name
    PROVE  /\ Targets(name) \subseteq Name
           /\ \A t \in Targets(name) : Canon[t] = t
           /\ \A s \in Aliases(index) : index[s].Name = name => index[s].Value \in Targets(name)
           /\ Canon[name] = name =>
                 \A t \in Targets(name) :
                     \E s \in Aliases(index) : index[s].Name = name /\ index[s].Value = t
<1>1. index \in Index
  BY DEF TypeOK
<1>2. named(index, "CNAME", name) \subseteq Aliases(index)
  BY DEF named, Aliases
<1>3. Targets(name) \subseteq Name /\ \A t \in Targets(name) : Canon[t] = t
  BY <1>1, <1>2, CanonicalAliases DEF Targets
<1>4. ASSUME NEW s \in Aliases(index), index[s].Name = name
      PROVE  index[s].Value \in Targets(name)
  <2>1. Canon[name] = name
    BY <1>1, <1>4, CanonicalAliases
  <2>2. s \in named(index, "CNAME", name)
    BY <1>4, <2>1 DEF named, Aliases
  <2>3. QED
    BY <2>2 DEF Targets
<1>5. ASSUME Canon[name] = name, NEW t \in Targets(name)
      PROVE  \E s \in Aliases(index) : index[s].Name = name /\ index[s].Value = t
  <2>1. PICK s \in named(index, "CNAME", name) : index[s].Value = t
    BY DEF Targets
  <2>2. QED
    BY <1>2, <1>5, <2>1 DEF named
<1>6. QED
  BY <1>3, <1>4, <1>5

LEMMA InitSearch == Init => SearchInv
<1> SUFFICES ASSUME Init PROVE SearchInv
  OBVIOUS
<1>1. Canon[target] \in Name /\ Canon[Canon[target]] = Canon[target]
  BY NameAssumption DEF Init
<1>2. TypeOK
  BY <1>1 DEF Init, TypeOK
<1>3. QED
  BY <1>1, <1>2 DEF Init, SearchInv, Reached, AnswersRight

LEMMA FoundStep ==
    ASSUME SearchInv, Found
    PROVE  SearchInv'
<1>1. Canon[alias] \in next \cup seen
  BY DEF Found
<1>2. closesCNAMELoop(index, alias, target)
  BY <1>1 DEF Found, SearchInv, Reached, closesCNAMELoop
<1>3. AnswersRight'
  BY <1>2 DEF Found, AnswersRight, closesCNAMELoop
<1>4. QED
  BY <1>3 DEF Found, SearchInv, TypeOK

LEMMA PassOverStep ==
    ASSUME SearchInv, PassOver
    PROVE  SearchInv'
<1>1. PICK name \in next : name \in seen /\ next' = next \ {name}
  BY DEF PassOver
<1>2. next' \cup seen' = next \cup seen
  BY <1>1 DEF PassOver
<1>3. Reached(next \cup seen)'
  BY <1>2 DEF PassOver, SearchInv, Reached, ClosedUnder, Aliases
<1>4. \A s \in Aliases(index') :
          index'[s].Name \in seen' => index'[s].Value \in next' \cup seen'
  BY <1>2 DEF PassOver, SearchInv, Aliases
<1>5. QED
  BY <1>1, <1>2, <1>3, <1>4 DEF PassOver, SearchInv, TypeOK, AnswersRight

LEMMA FollowStep ==
    ASSUME SearchInv, Follow
    PROVE  SearchInv'
<1>1. PICK name \in next :
          /\ name # Canon[alias] /\ name \notin seen
          /\ seen' = seen \cup {name}
          /\ next' = (next \ {name}) \cup Targets(name)
  BY DEF Follow
<1>2. TypeOK /\ name \in Name /\ Canon[name] = name /\ result = "none"
  BY <1>1 DEF Follow, SearchInv, TypeOK
<1>3. UNCHANGED <<index, alias, target, result>>
  BY DEF Follow
<1>4. next' \cup seen' = next \cup seen \cup Targets(name)
  BY <1>1
<1>5. TypeOK'
  BY <1>1, <1>2, <1>3, TargetsFollowed DEF TypeOK
<1>6. \A n \in next' : Canon[n] = n
  BY <1>1, <1>2, TargetsFollowed DEF SearchInv
<1>7. \A s \in Aliases(index) :
          index[s].Name \in seen' => index[s].Value \in next' \cup seen'
  BY <1>1, <1>2, <1>4, TargetsFollowed DEF SearchInv
<1>8. Reached(next' \cup seen')
  <2> SUFFICES ASSUME NEW R \in SUBSET Name, Canon[target] \in R, ClosedUnder(index, R)
               PROVE  next' \cup seen' \subseteq R
    BY DEF Reached
  <2>1. next \cup seen \subseteq R
    BY <1>2 DEF SearchInv, Reached
  <2>2. Targets(name) \subseteq R
    BY <1>1, <1>2, <2>1, TargetsFollowed DEF ClosedUnder
  <2>3. QED
    BY <1>4, <2>1, <2>2
<1>9. /\ Canon[target'] \in next' \cup seen'
      /\ Canon[alias'] \notin seen'
  BY <1>1, <1>2, <1>3, <1>4 DEF SearchInv
<1>10. Reached(next \cup seen)'
  BY <1>3, <1>8 DEF Reached
<1>11. AnswersRight'
  BY <1>2, <1>3 DEF AnswersRight
<1>12. QED
  BY <1>3, <1>5, <1>6, <1>7, <1>9, <1>10, <1>11 DEF SearchInv

LEMMA ExhaustedStep ==
    ASSUME SearchInv, Exhausted
    PROVE  SearchInv'
<1>1. /\ Canon[target] \in seen /\ Canon[alias] \notin seen
      /\ seen \subseteq Name /\ ClosedUnder(index, seen)
  BY DEF Exhausted, SearchInv, TypeOK, ClosedUnder
<1>2. ~ closesCNAMELoop(index, alias, target)
  BY <1>1 DEF closesCNAMELoop
<1>3. AnswersRight'
  BY <1>2 DEF Exhausted, AnswersRight, closesCNAMELoop
<1>4. QED
  BY <1>3 DEF Exhausted, SearchInv, TypeOK

\* What the search answers is right, for every index, alias and target
\* (index.go:65-85).
THEOREM SearchIsRight == Spec => []AnswersRight
<1>1. Init => SearchInv
  BY InitSearch
<1>2. SearchInv /\ [Next]_vars => SearchInv'
  <2> SUFFICES ASSUME SearchInv, [Next]_vars PROVE SearchInv'
    OBVIOUS
  <2>1. CASE UNCHANGED vars
    BY <2>1 DEF vars, SearchInv, TypeOK, Reached, AnswersRight, closesCNAMELoop,
                ClosedUnder, Aliases
  <2>2. QED
    BY <2>1, FoundStep, PassOverStep, FollowStep, ExhaustedStep DEF Next
<1>3. SearchInv => AnswersRight
  BY DEF SearchInv
<1>4. QED
  BY <1>1, <1>2, <1>3, PTL DEF Spec
=============================================================================
