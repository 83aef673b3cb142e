---------------------------- MODULE OpenWrtProofs ----------------------------
(***************************************************************************)
(* ApplyDNSRecords for every router, every set of sessions and every       *)
(* change set: type correctness; that what is staged is the change set at  *)
(* hand, whoever else writes to the router.  And as long as nobody else    *)
(* does: that dnsmasq starts on what is committed; that ApplyDNSRecords    *)
(* implements ChangeSets; and what a success, an apply and a section of    *)
(* another instance may be taken to mean.                                  *)
(*                                                                         *)
(* The lemmas are of SoleNext and AnyNext, which take any change set from  *)
(* whoever sends it, so that they serve the whole loop as well.            *)
(***************************************************************************)
EXTENDS OpenWrt, Naturals, TLAPS

-----------------------------------------------------------------------------
(* Records and the section index, for every set of names, sections and     *)
(* IDs.                                                                    *)

\* The canonical form of a record is a record, and is its own canonical form
\* (types.go:78-84).
LEMMA CanonicalRecord ==
    ASSUME NEW r \in DNSRecord
    PROVE  /\ Canonical(r) \in DNSRecord
           /\ Canonical(Canonical(r)) = Canonical(r)
           /\ Canonical(r).Type = r.Type
           /\ Canonical(r).Owner = r.Owner
           /\ Canonical(r).Name = Canon[r.Name]
           /\ r.Type = "CNAME" => Canonical(r).Value = Canon[r.Value]
           /\ r.Type = "A" => Canonical(r).Value = r.Value
<1>1. CASE r \in [Type : {"A"}, Name : Name, Value : Value, Owner : Owner]
  BY <1>1, NameAssumption DEF Canonical, DNSRecord
<1>2. CASE r \in [Type : {"CNAME"}, Name : Name, Value : Name, Owner : Owner]
  BY <1>2, NameAssumption DEF Canonical, DNSRecord
<1>3. QED
  BY <1>1, <1>2 DEF DNSRecord

\* A section's marker plays no part in its canonical form.
LEMMA OwnerKeepsCanonical ==
    ASSUME NEW r \in DNSRecord, NEW o \in Owner
    PROVE  /\ [r EXCEPT !.Owner = o] \in DNSRecord
           /\ Canonical([r EXCEPT !.Owner = o]) = [Canonical(r) EXCEPT !.Owner = o]
           /\ Represents([r EXCEPT !.Owner = o]) <=> Represents(r)
<1>1. CASE r \in [Type : {"A"}, Name : Name, Value : Value, Owner : Owner]
  BY <1>1, NameAssumption DEF Canonical, DNSRecord, Represents
<1>2. CASE r \in [Type : {"CNAME"}, Name : Name, Value : Name, Owner : Owner]
  BY <1>2, NameAssumption DEF Canonical, DNSRecord, Represents
<1>3. QED
  BY <1>1, <1>2 DEF DNSRecord

\* parseSection gives a canonical record or nothing (openwrt.go:151-153).
LEMMA ParsedSection ==
    ASSUME NEW held \in DNSRecord \cup {Absent}
    PROVE  /\ parseSection(held) \in DNSRecord \cup {Absent}
           /\ parseSection(held) # Absent =>
                 /\ held # Absent
                 /\ parseSection(held) = Canonical(held)
                 /\ Represents(held)
BY CanonicalRecord, SectionAssumption DEF parseSection

\* Every index newSectionIndex makes is one.
LEMMA NewIndexType ==
    ASSUME NEW config \in Config
    PROVE  newSectionIndex(config) \in Config
BY ParsedSection DEF newSectionIndex, Config

LEMMA NoSectionsType == NoSections \in Config
BY DEF NoSections, Config

\* The updates of the index keep it one.
LEMMA IndexUpdates ==
    ASSUME NEW idx \in Config, NEW s \in Section
    PROVE  /\ drop(idx, s) \in Config
           /\ idx[s] # Absent => markOwned(idx, s, OwnershipID) \in Config
           /\ \A r \in DNSRecord : add(idx, r, s, OwnershipID) \in Config
<1>1. drop(idx, s) \in Config
  BY DEF drop, Config
<1>2. idx[s] # Absent => markOwned(idx, s, OwnershipID) \in Config
  <2> SUFFICES ASSUME idx[s] # Absent
               PROVE  markOwned(idx, s, OwnershipID) \in Config
    OBVIOUS
  <2>1. idx[s] \in DNSRecord
    BY DEF Config
  <2>2. [idx[s] EXCEPT !.Owner = OwnershipID] \in DNSRecord
    BY <2>1, OwnerKeepsCanonical, OwnershipAssumption
  <2>3. markOwned(idx, s, OwnershipID)
            = [idx EXCEPT ![s] = [idx[s] EXCEPT !.Owner = OwnershipID]]
    BY DEF markOwned
  <2>4. QED
    BY <2>2, <2>3 DEF Config
<1>3. \A r \in DNSRecord : add(idx, r, s, OwnershipID) \in Config
  <2> TAKE r \in DNSRecord
  <2>1. [Canonical(r) EXCEPT !.Owner = OwnershipID] \in DNSRecord
    BY CanonicalRecord, OwnerKeepsCanonical, OwnershipAssumption
  <2>2. QED
    BY <2>1 DEF add, Config
<1>4. QED
  BY <1>1, <1>2, <1>3

-----------------------------------------------------------------------------
(* What dnsmasq needs, and what an update of the index does to it.         *)

\* No update gives an alias a second CNAME where each has one, loop or no loop
\* (openwrt.go:281-288).
LEMMA UpdatesKeepAliases ==
    ASSUME NEW idx \in Config, NEW s \in Section, OneCNAMEPerAlias(idx)
    PROVE  /\ OneCNAMEPerAlias(drop(idx, s))
           /\ idx[s] # Absent => OneCNAMEPerAlias(markOwned(idx, s, OwnershipID))
           /\ \A r \in DNSRecord :
                  (r.Type = "CNAME" => named(idx, "CNAME", r.Name) = {})
                      => OneCNAMEPerAlias(add(idx, r, s, OwnershipID))
<1>1. OneCNAMEPerAlias(drop(idx, s))
  <2>1. \A t \in Aliases(drop(idx, s)) :
            t \in Aliases(idx) /\ drop(idx, s)[t] = idx[t]
    BY DEF drop, Aliases, Config
  <2>2. QED
    BY <2>1 DEF OneCNAMEPerAlias
<1>2. ASSUME idx[s] # Absent
      PROVE  OneCNAMEPerAlias(markOwned(idx, s, OwnershipID))
  <2> DEFINE marked == [idx[s] EXCEPT !.Owner = OwnershipID]
             after == [idx EXCEPT ![s] = marked]
  <2>1. markOwned(idx, s, OwnershipID) = after /\ idx[s] \in DNSRecord
    BY <1>2 DEF markOwned, Config
  <2>2. marked.Type = idx[s].Type /\ marked.Name = idx[s].Name
    BY <2>1 DEF DNSRecord
  <2> HIDE DEF marked
  <2>3. \A t \in Aliases(after) : t \in Aliases(idx) /\ after[t].Name = idx[t].Name
    BY <1>2, <2>2 DEF Aliases, Config
  <2>4. OneCNAMEPerAlias(after)
    BY <2>3 DEF OneCNAMEPerAlias
  <2>5. QED
    BY <2>1, <2>4
<1>3. ASSUME NEW r \in DNSRecord, r.Type = "CNAME" => named(idx, "CNAME", r.Name) = {}
      PROVE  OneCNAMEPerAlias(add(idx, r, s, OwnershipID))
  <2> DEFINE new == [Canonical(r) EXCEPT !.Owner = OwnershipID]
             after == [idx EXCEPT ![s] = new]
  <2>1. add(idx, r, s, OwnershipID) = after
    BY DEF add
  <2>2. new.Type = r.Type /\ new.Name = Canon[r.Name]
    BY CanonicalRecord, OwnerKeepsCanonical, OwnershipAssumption DEF DNSRecord
  <2> HIDE DEF new
  <2>3. /\ after[s] = new
        /\ \A t \in Aliases(after) \ {s} : t \in Aliases(idx) /\ after[t] = idx[t]
    BY DEF Aliases, Config
  <2>4. s \in Aliases(after) => \A t \in Aliases(idx) : idx[t].Name # new.Name
    BY <1>3, <2>2, <2>3 DEF Aliases, named
  <2> HIDE DEF after
  <2>5. OneCNAMEPerAlias(after)
    BY <2>3, <2>4 DEF OneCNAMEPerAlias
  <2>6. QED
    BY <2>1, <2>5
<1>4. QED
  BY <1>1, <1>2, <1>3

\* Taking sections away closes no loop and gives no alias a second CNAME.
LEMMA DropKeepsSafe ==
    ASSUME NEW idx \in Config, NEW s \in Section, Startable(idx)
    PROVE  Startable(drop(idx, s))
<1> DEFINE after == drop(idx, s)
<1>1. \A t \in Aliases(after) : t \in Aliases(idx) /\ after[t] = idx[t]
  BY DEF drop, Aliases, Config
<1>2. OneCNAMEPerAlias(after)
  BY UpdatesKeepAliases DEF Startable
<1>3. \A L : Loop(after, L) => Loop(idx, L)
  BY <1>1 DEF Loop
<1>4. QED
  BY <1>2, <1>3 DEF Startable, NoCNAMELoop

\* Marking a section changes neither its name nor its value.
LEMMA MarkKeepsSafe ==
    ASSUME NEW idx \in Config, NEW s \in Section, idx[s] # Absent, Startable(idx)
    PROVE  Startable(markOwned(idx, s, OwnershipID))
<1> DEFINE after == markOwned(idx, s, OwnershipID)
<1>1. idx[s] \in DNSRecord
  BY DEF Config
<1>2. [idx[s] EXCEPT !.Owner = OwnershipID] \in DNSRecord
  BY <1>1, OwnerKeepsCanonical, OwnershipAssumption
<1>3. after = [idx EXCEPT ![s] = [idx[s] EXCEPT !.Owner = OwnershipID]]
  BY DEF markOwned
<1>4. \A t \in Aliases(after) :
          /\ t \in Aliases(idx)
          /\ after[t].Name = idx[t].Name /\ after[t].Value = idx[t].Value
  <2> TAKE t \in Aliases(after)
  <2>1. CASE t = s
    BY <2>1, <1>1, <1>2, <1>3 DEF Aliases, Config, DNSRecord
  <2>2. CASE t # s
    BY <2>2, <1>3 DEF Aliases, Config
  <2>3. QED
    BY <2>1, <2>2
<1>5. OneCNAMEPerAlias(after)
  BY UpdatesKeepAliases DEF Startable
<1>6. \A L : Loop(after, L) => Loop(idx, L)
  BY <1>4 DEF Loop
<1>7. QED
  BY <1>5, <1>6 DEF Startable, NoCNAMELoop

\* An A record is no alias.
LEMMA AddAddressKeepsSafe ==
    ASSUME NEW idx \in Config, NEW s \in Section, NEW r \in DNSRecord,
           r.Type = "A", Startable(idx)
    PROVE  Startable(add(idx, r, s, OwnershipID))
<1> DEFINE after == add(idx, r, s, OwnershipID)
           new == [Canonical(r) EXCEPT !.Owner = OwnershipID]
<1>1. new \in DNSRecord /\ new.Type = "A"
  BY CanonicalRecord, OwnerKeepsCanonical, OwnershipAssumption DEF DNSRecord
<1>2. after = [idx EXCEPT ![s] = new]
  BY DEF add
<1>3. \A t \in Aliases(after) : t \in Aliases(idx) /\ after[t] = idx[t]
  BY <1>1, <1>2 DEF Aliases, Config
<1>4. OneCNAMEPerAlias(after)
  BY UpdatesKeepAliases DEF Startable
<1>5. \A L : Loop(after, L) => Loop(idx, L)
  BY <1>3 DEF Loop
<1>6. QED
  BY <1>4, <1>5 DEF Startable, NoCNAMELoop

\* A CNAME whose alias is free and whose target does not lead back to it gives
\* no alias a second CNAME and closes no loop (openwrt.go:285-297).
LEMMA AddAliasKeepsSafe ==
    ASSUME NEW idx \in Config, NEW s \in Section, NEW r \in DNSRecord,
           idx[s] = Absent, r.Type = "CNAME",
           named(idx, "CNAME", r.Name) = {},
           ~ closesCNAMELoop(idx, r.Name, r.Value),
           Startable(idx)
    PROVE  Startable(add(idx, r, s, OwnershipID))
<1> DEFINE after == add(idx, r, s, OwnershipID)
           new == [Canonical(r) EXCEPT !.Owner = OwnershipID]
           alias == Canon[r.Name]
           target == Canon[r.Value]
<1>1. /\ new \in DNSRecord /\ new.Type = "CNAME"
      /\ new.Name = alias /\ new.Value = target
  BY CanonicalRecord, OwnerKeepsCanonical, OwnershipAssumption DEF DNSRecord
<1>2. after = [idx EXCEPT ![s] = new]
  BY DEF add
<1>3. /\ after[s] = new
      /\ s \in Aliases(after)
      /\ \A t \in Aliases(after) \ {s} : t \in Aliases(idx) /\ after[t] = idx[t]
  BY <1>1, <1>2, SectionAssumption DEF Aliases, Config
<1>4. \A t \in Aliases(idx) : idx[t].Name # alias
  BY DEF named, Aliases
<1>5. OneCNAMEPerAlias(after)
  BY UpdatesKeepAliases DEF Startable
<1>6. PICK R \in SUBSET Name : target \in R /\ ClosedUnder(idx, R) /\ alias \notin R
  BY DEF closesCNAMELoop
<1>7. ASSUME NEW L \in SUBSET Name, Loop(after, L)
      PROVE  FALSE
  <2>1. CASE alias \notin L
    <3>1. Loop(idx, L)
      <4> SUFFICES ASSUME NEW n \in L
                   PROVE  \E t \in Aliases(idx) : idx[t].Name = n /\ idx[t].Value \in L
        BY <1>7 DEF Loop
      <4>1. PICK t \in Aliases(after) : after[t].Name = n /\ after[t].Value \in L
        BY <1>7 DEF Loop
      <4>2. t # s
        BY <4>1, <2>1, <1>1, <1>3
      <4>3. QED
        BY <4>1, <4>2, <1>3
    <3>2. QED
      BY <3>1 DEF Startable, NoCNAMELoop
  <2>2. CASE alias \in L
    <3> DEFINE M == L \cap R
    <3>1. target \in L
      <4>1. PICK t \in Aliases(after) : after[t].Name = alias /\ after[t].Value \in L
        BY <2>2, <1>7 DEF Loop
      <4>2. t = s
        BY <4>1, <1>3, <1>4
      <4>3. QED
        BY <4>1, <4>2, <1>1, <1>3
    <3>2. M # {} /\ M \in SUBSET Name
      BY <3>1, <1>6
    <3>3. ASSUME NEW n \in M
          PROVE  \E t \in Aliases(idx) : idx[t].Name = n /\ idx[t].Value \in M
      <4>1. PICK t \in Aliases(after) : after[t].Name = n /\ after[t].Value \in L
        BY <1>7 DEF Loop
      <4>2. t # s
        BY <4>1, <1>1, <1>3, <1>6
      <4>3. t \in Aliases(idx) /\ after[t] = idx[t]
        BY <4>2, <1>3
      <4>4. idx[t].Value \in R
        BY <4>1, <4>3, <1>6 DEF ClosedUnder
      <4>5. QED
        BY <4>1, <4>3, <4>4
    <3>4. Loop(idx, M)
      BY <3>2, <3>3 DEF Loop
    <3>5. QED
      BY <3>2, <3>4 DEF Startable, NoCNAMELoop
  <2>3. QED
    BY <2>1, <2>2
<1>8. QED
  BY <1>5, <1>7 DEF Startable, NoCNAMELoop

\* Sections that keep their type and name, or go, hide nothing new.
LEMMA SameNamesHideNothing ==
    ASSUME NEW before, NEW after,
           NothingHidden(before),
           \A s \in Section :
               \/ after[s] = Absent
               \/ /\ before[s] # Absent
                  /\ after[s].Type = before[s].Type /\ after[s].Name = before[s].Name
    PROVE  NothingHidden(after)
BY DEF NothingHidden, Aliases, Addresses

LEMMA DropHidesNothing ==
    ASSUME NEW idx \in Config, NEW s \in Section, NothingHidden(idx)
    PROVE  NothingHidden(drop(idx, s))
<1>1. \A t \in Section : drop(idx, s)[t] = Absent \/ drop(idx, s)[t] = idx[t]
  BY DEF drop, Config
<1>2. QED
  BY <1>1, SameNamesHideNothing

LEMMA MarkHidesNothing ==
    ASSUME NEW idx \in Config, NEW s \in Section, idx[s] # Absent, NothingHidden(idx)
    PROVE  NothingHidden(markOwned(idx, s, OwnershipID))
<1> DEFINE after == markOwned(idx, s, OwnershipID)
<1>1. after = [idx EXCEPT ![s] = [idx[s] EXCEPT !.Owner = OwnershipID]]
  BY DEF markOwned
<1>2. idx[s] \in DNSRecord
  BY DEF Config
<1>3. \A t \in Section :
          \/ after[t] = Absent
          \/ /\ idx[t] # Absent
             /\ after[t].Type = idx[t].Type /\ after[t].Name = idx[t].Name
  BY <1>1, <1>2 DEF Config, DNSRecord
<1>4. QED
  BY <1>3, SameNamesHideNothing

\* A record added where no record of the other type has its name hides none
\* and is not hidden (openwrt.go:302-314).
LEMMA AddHidesNothing ==
    ASSUME NEW idx \in Config, NEW s \in Section, NEW r \in DNSRecord,
           r.Type = "A" => named(idx, "CNAME", r.Name) = {},
           r.Type = "CNAME" => named(idx, "A", r.Name) = {},
           NothingHidden(idx)
    PROVE  NothingHidden(add(idx, r, s, OwnershipID))
<1> DEFINE after == add(idx, r, s, OwnershipID)
           new == [Canonical(r) EXCEPT !.Owner = OwnershipID]
<1>1. /\ new \in DNSRecord /\ new.Type = r.Type /\ new.Name = Canon[r.Name]
  BY CanonicalRecord, OwnerKeepsCanonical, OwnershipAssumption DEF DNSRecord
<1>2. after = [idx EXCEPT ![s] = new]
  BY DEF add
<1>3. SUFFICES ASSUME NEW t \in Aliases(after), NEW u \in Addresses(after)
               PROVE  after[t].Name # after[u].Name
  BY DEF NothingHidden
<1>4. t # u
  BY DEF Aliases, Addresses
<1>5. CASE t = s
  <2>1. after[t] = new /\ r.Type = "CNAME"
    BY <1>1, <1>2, <1>5 DEF Aliases, Config
  <2>2. u \in Section /\ after[u] = idx[u] /\ idx[u] # Absent /\ idx[u].Type = "A"
    BY <1>2, <1>4, <1>5 DEF Addresses, Config
  <2>3. idx[u].Name # Canon[r.Name]
    BY <2>1, <2>2 DEF named
  <2>4. QED
    BY <2>1, <2>2, <2>3, <1>1
<1>6. CASE u = s
  <2>1. after[u] = new /\ r.Type = "A"
    BY <1>1, <1>2, <1>6 DEF Addresses, Config
  <2>2. t \in Section /\ after[t] = idx[t] /\ idx[t] # Absent /\ idx[t].Type = "CNAME"
    BY <1>2, <1>4, <1>6 DEF Aliases, Config
  <2>3. idx[t].Name # Canon[r.Name]
    BY <2>1, <2>2 DEF named
  <2>4. QED
    BY <2>1, <2>2, <2>3, <1>1
<1>7. CASE t # s /\ u # s
  BY <1>2, <1>7 DEF NothingHidden, Aliases, Addresses, Config
<1>8. QED
  BY <1>5, <1>6, <1>7
-----------------------------------------------------------------------------
(* What an update of the index does to the sections of a key and to what   *)
(* is in the way of a record: the updates of addRecord only ever add.      *)

\* The identity of a record is that of its canonical form, whoever owns it.
LEMMA KeyOfCanonical ==
    ASSUME NEW r \in DNSRecord, NEW o \in Owner
    PROVE  /\ Key(Canonical(r)) = Key(r)
           /\ Key([r EXCEPT !.Owner = o]) = Key(r)
           /\ Key([Canonical(r) EXCEPT !.Owner = o]) = Key(r)
<1>1. \A q \in DNSRecord : Key([q EXCEPT !.Owner = o]) = Key(q)
  <2> TAKE q \in DNSRecord
  <2>1. CASE q \in [Type : {"A"}, Name : Name, Value : Value, Owner : Owner]
    BY <2>1 DEF Key
  <2>2. CASE q \in [Type : {"CNAME"}, Name : Name, Value : Name, Owner : Owner]
    BY <2>2 DEF Key
  <2>3. QED
    BY <2>1, <2>2 DEF DNSRecord
<1>2. Key(Canonical(r)) = Key(r)
  <2>1. CASE r.Type = "A"
    BY <2>1, CanonicalRecord, NameAssumption DEF Key, DNSRecord
  <2>2. CASE r.Type = "CNAME"
    BY <2>2, CanonicalRecord, NameAssumption DEF Key, DNSRecord
  <2>3. QED
    BY <2>1, <2>2 DEF DNSRecord
<1>3. QED
  BY <1>1, <1>2, CanonicalRecord

\* Records of one identity are one record but for their spelling.
LEMMA SameKey ==
    ASSUME NEW q \in DNSRecord, NEW r \in DNSRecord, Key(q) = Key(r)
    PROVE  /\ q.Type = r.Type /\ Canon[q.Name] = Canon[r.Name]
           /\ q.Type = "CNAME" => Canon[q.Value] = Canon[r.Value]
BY DEF Key

\* after holds every record of before where before holds it.
Extends(before, after) ==
    \A s \in Section : before[s] # Absent =>
        /\ after[s] # Absent
        /\ after[s].Type = before[s].Type
        /\ after[s].Name = before[s].Name /\ after[s].Value = before[s].Value

LEMMA ExtensionNamesMore ==
    ASSUME NEW before, NEW after, Extends(before, after), NEW type, NEW name
    PROVE  named(before, type, name) # {} => named(after, type, name) # {}
BY DEF Extends, named

\* A loop that a record would close is still there.
LEMMA ExtensionKeepsLoops ==
    ASSUME NEW before, NEW after, Extends(before, after), NEW alias, NEW target,
           closesCNAMELoop(before, alias, target)
    PROVE  closesCNAMELoop(after, alias, target)
<1>1. \A s \in Aliases(before) :
          /\ s \in Aliases(after)
          /\ after[s].Name = before[s].Name /\ after[s].Value = before[s].Value
  BY DEF Extends, Aliases
<1>2. \A R : ClosedUnder(after, R) => ClosedUnder(before, R)
  BY <1>1 DEF ClosedUnder
<1>3. QED
  BY <1>2 DEF closesCNAMELoop

LEMMA MarkExtends ==
    ASSUME NEW idx \in Config, NEW s \in Section, idx[s] # Absent
    PROVE  Extends(idx, markOwned(idx, s, OwnershipID))
<1>1. markOwned(idx, s, OwnershipID)
          = [idx EXCEPT ![s] = [idx[s] EXCEPT !.Owner = OwnershipID]]
  BY DEF markOwned
<1>2. idx[s] \in DNSRecord
  BY DEF Config
<1>3. [idx[s] EXCEPT !.Owner = OwnershipID] # Absent
  BY <1>2, OwnerKeepsCanonical, OwnershipAssumption, SectionAssumption
<1>4. QED
  BY <1>1, <1>2, <1>3 DEF Extends, Config, DNSRecord

LEMMA AddExtends ==
    ASSUME NEW idx \in Config, NEW s \in Section, idx[s] = Absent, NEW r
    PROVE  Extends(idx, add(idx, r, s, OwnershipID))
BY DEF Extends, add, Config

\* The sections of a key after each update of the index.
LEMMA DroppedKeys ==
    ASSUME NEW idx \in Config, NEW s \in Section, NEW key
    PROVE  owned(drop(idx, s), key) = owned(idx, key) \ {s}
BY DEF owned, Matching, drop, Config

LEMMA MarkedKeys ==
    ASSUME NEW idx \in Config, NEW s \in Section, idx[s] # Absent,
           OwnershipEnabled, NEW key
    PROVE  LET after == markOwned(idx, s, OwnershipID)
           IN  /\ Key(after[s]) = Key(idx[s])
               /\ Key(idx[s]) = key => owned(after, key) = owned(idx, key) \cup {s}
               /\ Key(idx[s]) # key => owned(after, key) = owned(idx, key)
               /\ unowned(after, key) = unowned(idx, key) \ {s}
<1> DEFINE marked == [idx[s] EXCEPT !.Owner = OwnershipID]
           after == [idx EXCEPT ![s] = marked]
<1>1. markOwned(idx, s, OwnershipID) = after
  BY DEF markOwned
<1>2. idx[s] \in DNSRecord
  BY DEF Config
<1>3. marked # Absent /\ marked.Owner = OwnershipID /\ Key(marked) = Key(idx[s])
  BY <1>2, OwnerKeepsCanonical, KeyOfCanonical, OwnershipAssumption, SectionAssumption
     DEF DNSRecord
<1> HIDE DEF marked
<1>4. after[s] = marked /\ \A t \in Section \ {s} : after[t] = idx[t]
  BY DEF Config
<1>5. Matching(after, key) = Matching(idx, key)
  BY <1>3, <1>4 DEF Matching
<1>6. s \in Matching(idx, key) <=> Key(idx[s]) = key
  BY DEF Matching
<1>7. Matching(idx, key) \subseteq Section
  BY DEF Matching
<1> HIDE DEF after
<1>8. Key(idx[s]) = key => owned(after, key) = owned(idx, key) \cup {s}
  BY <1>3, <1>4, <1>5, <1>6, <1>7 DEF owned
<1>9. Key(idx[s]) # key => owned(after, key) = owned(idx, key)
  BY <1>4, <1>5, <1>6, <1>7 DEF owned
<1>10. unowned(after, key) = unowned(idx, key) \ {s}
  BY <1>3, <1>4, <1>5, <1>7 DEF unowned, OwnershipEnabled
<1>11. QED
  BY <1>1, <1>3, <1>4, <1>8, <1>9, <1>10

LEMMA AddedKeys ==
    ASSUME NEW idx \in Config, NEW s \in Section, idx[s] = Absent,
           NEW r \in DNSRecord, NEW key
    PROVE  LET after == add(idx, r, s, OwnershipID)
           IN  /\ after[s] # Absent /\ Key(after[s]) = Key(r)
               /\ Key(r) = key => owned(after, key) = owned(idx, key) \cup {s}
               /\ Key(r) # key => owned(after, key) = owned(idx, key)
               /\ OwnershipEnabled => unowned(after, key) = unowned(idx, key)
<1> DEFINE new == [Canonical(r) EXCEPT !.Owner = OwnershipID]
           after == [idx EXCEPT ![s] = new]
<1>1. add(idx, r, s, OwnershipID) = after
  BY DEF add
<1>2. Canonical(r) \in DNSRecord
  BY CanonicalRecord
<1>3. new # Absent /\ new.Owner = OwnershipID /\ Key(new) = Key(r)
  BY <1>2, OwnerKeepsCanonical, KeyOfCanonical, OwnershipAssumption, SectionAssumption
     DEF DNSRecord
<1> HIDE DEF new
<1>4. after[s] = new /\ \A t \in Section \ {s} : after[t] = idx[t]
  BY DEF Config
<1> HIDE DEF after
<1>5. Key(r) = key => Matching(after, key) = Matching(idx, key) \cup {s}
  BY <1>3, <1>4 DEF Matching
<1>6. Key(r) # key => Matching(after, key) = Matching(idx, key)
  BY <1>3, <1>4 DEF Matching
<1>7. Matching(idx, key) \subseteq Section \ {s}
  BY DEF Matching
<1>8. Key(r) = key => owned(after, key) = owned(idx, key) \cup {s}
  BY <1>3, <1>4, <1>5, <1>7 DEF owned
<1>9. Key(r) # key => owned(after, key) = owned(idx, key)
  BY <1>4, <1>6, <1>7 DEF owned
<1>10. OwnershipEnabled => unowned(after, key) = unowned(idx, key)
  BY <1>3, <1>4, <1>5, <1>6, <1>7 DEF unowned, OwnershipEnabled
<1>11. QED
  BY <1>1, <1>3, <1>4, <1>8, <1>9, <1>10

-----------------------------------------------------------------------------
(* Types of what ApplyDNSRecords has, and of what the router stages.       *)

LEMMA HeadAndTail ==
    ASSUME NEW S, NEW seq \in Seq(S), seq # <<>>
    PROVE  Head(seq) \in S /\ Tail(seq) \in Seq(S)
OBVIOUS

\* Everything the goroutine has of its own, when it has returned.
LEMMA ReturnType ==
    ASSUME TypeOK, NEW r \in {"ok", "error"}, Return(r)
    PROVE  /\ pc' \in Calling \cup {"idle", "removes", "adds"}
           /\ changes' \in [remove : Seq(DNSRecord), add : Seq(DNSRecord)]
           /\ toRemove' \in Seq(DNSRecord) /\ toAdd' \in Seq(DNSRecord)
           /\ index' \in Config /\ section' \in Section \cup {Absent}
           /\ changed' \in BOOLEAN /\ skipped' \subseteq DNSRecord
           /\ result' \in {"none", "ok", "error"} /\ issued' \in Staging
<1>1. NothingStaged \in Staging
  BY DEF NothingStaged, Staging, Change
<1>2. <<>> \in Seq(DNSRecord)
  OBVIOUS
<1>3. QED
  BY <1>1, <1>2, NoSectionsType DEF Return, NoChanges

\* What the router stages and commits has its type.
LEMMA ChangeTypes ==
    /\ Keep \in Change /\ Delete \in Change
    /\ \A r \in DNSRecord : AddSection(r) \in Change
    /\ \A o \in Owner : SetOwner(o) \in Change
    /\ NothingStaged \in Staging
BY DEF Keep, Delete, AddSection, SetOwner, Change, NothingStaged, Staging

LEMMA ReplayType ==
    ASSUME NEW held \in DNSRecord \cup {Absent}, NEW change \in Change
    PROVE  Replay(held, change) \in DNSRecord \cup {Absent}
<1>1. CASE change = Keep
  BY <1>1 DEF Replay, Keep
<1>2. CASE change = Delete
  BY <1>2 DEF Replay, Delete
<1>3. CASE change \in [op : {"add"}, record : DNSRecord]
  BY <1>3 DEF Replay
<1>4. CASE change \in [op : {"set"}, owner : Owner]
  BY <1>4, OwnerKeepsCanonical DEF Replay
<1>5. QED
  BY <1>1, <1>2, <1>3, <1>4 DEF Change

LEMMA ViewType ==
    ASSUME NEW config \in Config, NEW staging \in Staging
    PROVE  View(config, staging) \in Config
BY ReplayType DEF View, Config, Staging

LEMMA StageType ==
    ASSUME TypeOK, session \in Session, NEW s \in Section, NEW change \in Change, Stage(s, change)
    PROVE  dhcp' \in Config /\ alive' \subseteq Session /\ delta' \in [Session -> Staging]
BY DEF Stage, TypeOK, Staging

LEMMA CommitType ==
    ASSUME TypeOK, session \in Session, Commit
    PROVE  dhcp' \in Config /\ alive' \subseteq Session /\ delta' \in [Session -> Staging]
BY ViewType, ChangeTypes DEF Commit, TypeOK, Seen

LEMMA NewSectionType ==
    ASSUME TypeOK, toAdd # <<>>
    PROVE  NewSection \in DNSRecord
BY HeadAndTail, CanonicalRecord, OwnerKeepsCanonical, OwnershipAssumption DEF TypeOK, NewSection

-----------------------------------------------------------------------------
(* Type correctness.  TypeOK is not inductive: it needs what the goroutine *)
(* knows of the section or the record it is making a call for.             *)

Waiting ==
    /\ pc = "delete" => section \in Section
    /\ pc = "set" =>
          /\ toAdd # <<>> /\ OwnershipEnabled
          /\ section \in Section
          /\ index[section] # Absent /\ index[section].Owner = NoOwner
    /\ pc = "create" => toAdd # <<>> /\ Validate(Wanted) /\ ~ Refused(Wanted)

TypeInv == TypeOK /\ Waiting

LEMMA FailKeepsType ==
    ASSUME TypeInv, Fail, UNCHANGED routerVars
    PROVE  TypeInv'
<1>1. TypeOK'
  BY ReturnType DEF Fail, Reset, TypeInv, TypeOK, routerVars
<1>2. pc' = "idle"
  BY DEF Fail, Return
<1>3. QED
  BY <1>1, <1>2 DEF TypeInv, Waiting

LEMMA InitType == Init => TypeInv
<1> SUFFICES ASSUME Init PROVE TypeInv
  OBVIOUS
<1>1. dhcp \in Config
  BY InitialAssumption DEF Init
<1>2. TypeOK
  <2>1. <<>> \in Seq(DNSRecord)
    OBVIOUS
  <2>2. delta \in [Session -> Staging]
    BY ChangeTypes DEF Init
  <2>3. QED
    BY <1>1, <2>1, <2>2, NoSectionsType, ChangeTypes DEF Init, TypeOK, NoChanges
<1>3. QED
  BY <1>2 DEF Init, TypeInv, Waiting

\* Whatever change set is sent, by whomever: ChangeSet bounds what is sent in the
\* specification of one component, the rest of the system sends what it plans.
AnyReceive ==
    \/ pc = "idle" /\ Return("ok") /\ UNCHANGED <<routerVars, clientVars>>
    \/ \E cs \in [remove : Seq(DNSRecord), add : Seq(DNSRecord)] : ApplyDNSRecords(cs)

SoleNext == AnyReceive \/ Step \/ Expire \/ Restart

\* Others write to the router too.
AnyNext == SoleNext \/ Edit

LEMMA SharedIsAny ==
    /\ [Next]_vars => [SoleNext]_vars
    /\ [SoleNext]_vars \/ [Next \/ Edit]_vars => [AnyNext]_vars
<1>1. Receive => AnyReceive
  <2>1. NothingAsked => AnyReceive
    BY DEF NothingAsked, AnyReceive
  <2>2. ASSUME NEW cs \in ChangeSet, ApplyDNSRecords(cs) PROVE AnyReceive
    BY <2>2, ChangeSetAssumption DEF AnyReceive
  <2>3. QED
    BY <2>1, <2>2 DEF Receive
<1>2. QED
  BY <1>1 DEF Next, SoleNext, AnyNext

LEMMA ReceiveType ==
    ASSUME TypeInv, AnyReceive
    PROVE  TypeInv'
<1>1. CASE pc = "idle" /\ Return("ok") /\ UNCHANGED <<routerVars, clientVars>>
  <2>1. TypeOK'
    BY <1>1, ReturnType DEF TypeInv, TypeOK, routerVars, clientVars
  <2>2. pc' = "idle"
    BY <1>1 DEF Return
  <2>3. QED
    BY <2>1, <2>2 DEF TypeInv, Waiting
<1>2. ASSUME NEW cs \in [remove : Seq(DNSRecord), add : Seq(DNSRecord)], ApplyDNSRecords(cs)
      PROVE  TypeInv'
  <2>2. TypeOK'
    BY <1>2 DEF ApplyDNSRecords, TypeInv, TypeOK, routerVars, clientVars, Calling
  <2>3. pc' = "get"
    BY <1>2 DEF ApplyDNSRecords
  <2>4. QED
    BY <2>2, <2>3 DEF TypeInv, Waiting
<1>3. QED
  BY <1>1, <1>2 DEF AnyReceive

LEMMA LoginType ==
    ASSUME TypeInv, Login
    PROVE  TypeInv'
<1>1. PICK s \in Session \ alive :
          /\ session' = s
          /\ alive' = alive \cup {s}
          /\ delta' = [delta EXCEPT ![s] = NothingStaged]
  BY DEF Login
<1>2. delta' \in [Session -> Staging]
  BY <1>1, ChangeTypes DEF TypeInv, TypeOK
<1>3. TypeOK'
  BY <1>1, <1>2 DEF Login, TypeInv, TypeOK, localVars
<1>4. Waiting'
  BY DEF Login, TypeInv, Waiting, localVars, Wanted, Refused
<1>5. QED
  BY <1>3, <1>4 DEF TypeInv

LEMMA DeniedType ==
    ASSUME TypeInv, Denied
    PROVE  TypeInv'
<1>1. CASE staged \/ retried
  BY <1>1, FailKeepsType DEF Denied
<1>2. CASE ~ (staged \/ retried)
  <2>1. TypeOK'
    BY <1>2 DEF Denied, TypeInv, TypeOK, localVars, routerVars
  <2>2. Waiting'
    BY <1>2 DEF Denied, TypeInv, Waiting, localVars, Wanted, Refused
  <2>3. QED
    BY <2>1, <2>2 DEF TypeInv
<1>3. QED
  BY <1>1, <1>2

\* Each call the router performs keeps its state typed.
LEMMA AnswerLostType ==
    ASSUME TypeInv, AnswerLost
    PROVE  TypeInv'
<1>1. session \in Session
  BY DEF AnswerLost, TypeInv, TypeOK
<1>2. dhcp' \in Config /\ alive' \subseteq Session /\ delta' \in [Session -> Staging]
  <2>1. CASE pc = "delete" /\ StageDelete
    BY <1>1, <2>1, StageType, ChangeTypes DEF StageDelete, TypeInv, Waiting
  <2>2. CASE pc = "set" /\ StageSet
    <3>1. CASE UNCHANGED routerVars
      BY <3>1 DEF routerVars, TypeInv, TypeOK
    <3>2. CASE Stage(section, SetOwner(OwnershipID))
      BY <1>1, <2>2, <3>2, StageType, ChangeTypes, OwnershipAssumption DEF TypeInv, Waiting
    <3>3. QED
      BY <2>2, <3>1, <3>2 DEF StageSet
  <2>3. CASE pc = "create" /\ \E s \in Section : StageAdd(s)
    <3>1. AddSection(NewSection) \in Change
      BY <2>3, NewSectionType, ChangeTypes DEF TypeInv, Waiting
    <3>2. QED
      BY <1>1, <2>3, <3>1, StageType DEF StageAdd, TypeInv
  <2>4. CASE pc = "apply" /\ delta[session] # NothingStaged /\ Commit
    BY <1>1, <2>4, CommitType DEF TypeInv
  <2>5. QED
    BY <2>1, <2>2, <2>3, <2>4 DEF AnswerLost
<1>3. TypeOK'
  BY <1>2, ReturnType DEF AnswerLost, Fail, Reset, TypeInv, TypeOK
<1>4. pc' = "idle"
  BY DEF AnswerLost, Fail, Return
<1>5. QED
  BY <1>3, <1>4 DEF TypeInv, Waiting

LEMMA ReadType ==
    ASSUME TypeInv, Read
    PROVE  TypeInv'
<1>1. Seen \in Config
  BY ViewType DEF Seen, Read, TypeInv, TypeOK
<1>2. index' \in Config
  BY <1>1, NewIndexType DEF Read
<1>3. QED
  BY <1>2 DEF Read, TypeInv, TypeOK, Waiting, routerVars

LEMMA RemovalsType ==
    ASSUME TypeInv, RemoveRecord \/ NextRemoval \/ Deleted \/ RemovalsDone
    PROVE  TypeInv'
<1>1. CASE RemoveRecord
  <2>1. section' \in Section
    BY <1>1 DEF RemoveRecord, owned, Matching
  <2>2. QED
    BY <1>1, <2>1 DEF RemoveRecord, TypeInv, TypeOK, Waiting, Calling, routerVars, clientVars
<1>2. CASE NextRemoval
  <2>1. toRemove' \in Seq(DNSRecord)
    BY <1>2, HeadAndTail DEF NextRemoval, TypeInv, TypeOK
  <2>2. QED
    BY <1>2, <2>1 DEF NextRemoval, TypeInv, TypeOK, Waiting, routerVars, clientVars
<1>3. CASE Deleted
  <2>1. session \in Session /\ section \in Section
    BY <1>3 DEF Deleted, TypeInv, TypeOK, Waiting
  <2>2. dhcp' \in Config /\ alive' \subseteq Session /\ delta' \in [Session -> Staging]
    BY <1>3, <2>1, StageType, ChangeTypes DEF Deleted, StageDelete, TypeInv
  <2>3. index' \in Config
    BY <1>3, <2>1, IndexUpdates DEF Deleted, TypeInv, TypeOK
  <2>4. issued' \in Staging
    BY <1>3, <2>1, ChangeTypes DEF Deleted, TypeInv, TypeOK, Staging
  <2>5. QED
    BY <1>3, <2>2, <2>3, <2>4 DEF Deleted, Tracked, TypeInv, TypeOK, Waiting
<1>4. CASE RemovalsDone
  BY <1>4 DEF RemovalsDone, TypeInv, TypeOK, Waiting, routerVars, clientVars, localVars
<1>5. QED
  BY <1>1, <1>2, <1>3, <1>4

LEMMA DecisionType ==
    ASSUME TypeInv,
           InvalidRecord \/ AlreadyPresent \/ AdoptRecord \/ SkipRecord \/ CreateSection
    PROVE  TypeInv'
<1>1. CASE InvalidRecord
  BY <1>1, FailKeepsType DEF InvalidRecord
<1>2. CASE AlreadyPresent
  <2>1. toAdd' \in Seq(DNSRecord)
    BY <1>2, HeadAndTail DEF AlreadyPresent, Adding, TypeInv, TypeOK
  <2>2. QED
    BY <1>2, <2>1 DEF AlreadyPresent, Adding, TypeInv, TypeOK, Waiting, routerVars, clientVars
<1>3. CASE AdoptRecord
  <2>1. /\ toAdd # <<>> /\ OwnershipEnabled
        /\ section' \in Section
        /\ index[section'] # Absent /\ index[section'].Owner = NoOwner
    BY <1>3 DEF AdoptRecord, Adding, Adoptable, unowned, Matching
  <2>2. QED
    BY <1>3, <2>1 DEF AdoptRecord, TypeInv, TypeOK, Waiting, Calling, routerVars, clientVars,
                      OwnershipEnabled
<1>4. CASE SkipRecord
  <2>1. toAdd' \in Seq(DNSRecord) /\ skipped' \subseteq DNSRecord
    BY <1>4, HeadAndTail DEF SkipRecord, Adding, Wanted, TypeInv, TypeOK
  <2>2. QED
    BY <1>4, <2>1 DEF SkipRecord, Adding, TypeInv, TypeOK, Waiting, routerVars, clientVars
<1>5. CASE CreateSection
  <2>1. Waiting'
    BY <1>5 DEF CreateSection, Adding, NeedsSection, Waiting, Wanted, Refused, localVars
  <2>2. QED
    BY <1>5, <2>1 DEF CreateSection, TypeInv, TypeOK, Calling, routerVars, clientVars, localVars
<1>6. QED
  BY <1>1, <1>2, <1>3, <1>4, <1>5

LEMMA AdoptedType ==
    ASSUME TypeInv, Adopted
    PROVE  TypeInv'
<1>1. session \in Session /\ section \in Section /\ index[section] # Absent /\ toAdd # <<>>
  BY DEF Adopted, TypeInv, TypeOK, Waiting
<1>2. dhcp' \in Config /\ alive' \subseteq Session /\ delta' \in [Session -> Staging]
  <2>1. CASE UNCHANGED routerVars
    BY <2>1 DEF routerVars, TypeInv, TypeOK
  <2>2. CASE Stage(section, SetOwner(OwnershipID))
    BY <1>1, <2>2, StageType, ChangeTypes, OwnershipAssumption DEF TypeInv
  <2>3. QED
    BY <2>1, <2>2 DEF Adopted, StageSet
<1>3. index' \in Config
  BY <1>1, IndexUpdates DEF Adopted, TypeInv, TypeOK
<1>4. issued' \in Staging
  BY <1>1, <1>2 DEF Adopted, TypeInv, TypeOK, Staging
<1>5. toAdd' \in Seq(DNSRecord)
  BY <1>1, HeadAndTail DEF Adopted, TypeInv, TypeOK
<1>6. QED
  BY <1>2, <1>3, <1>4, <1>5 DEF Adopted, Tracked, TypeInv, TypeOK, Waiting

LEMMA CreatedType ==
    ASSUME TypeInv, Created
    PROVE  TypeInv'
<1>1. session \in Session /\ toAdd # <<>>
  BY DEF Created, TypeInv, TypeOK, Waiting
<1>2. PICK s \in Section :
          /\ StageAdd(s)
          /\ issued' = [issued EXCEPT ![s] = AddSection(NewSection)]
          /\ index' = add(index, Head(toAdd), s, OwnershipID)
  BY DEF Created
<1>3. AddSection(NewSection) \in Change
  BY <1>1, NewSectionType, ChangeTypes DEF TypeInv
<1>4. dhcp' \in Config /\ alive' \subseteq Session /\ delta' \in [Session -> Staging]
  BY <1>1, <1>2, <1>3, StageType DEF StageAdd, TypeInv
<1>5. issued' \in Staging
  BY <1>2, <1>3 DEF TypeInv, TypeOK, Staging
<1>6. Head(toAdd) \in DNSRecord /\ toAdd' \in Seq(DNSRecord)
  BY <1>1, HeadAndTail DEF Created, TypeInv, TypeOK
<1>7. index' \in Config
  BY <1>2, <1>6, IndexUpdates DEF TypeInv, TypeOK
<1>8. QED
  BY <1>4, <1>5, <1>6, <1>7 DEF Created, Tracked, TypeInv, TypeOK, Waiting

LEMMA EndingType ==
    ASSUME TypeInv, NothingChanged \/ StartApply \/ Applied
    PROVE  TypeInv'
<1>1. CASE StartApply
  BY <1>1 DEF StartApply, TypeInv, TypeOK, Waiting, Calling, routerVars, clientVars, localVars
<1>2. CASE Applied
  <2>1. dhcp' \in Config /\ alive' \subseteq Session /\ delta' \in [Session -> Staging]
    BY <1>2, CommitType DEF Applied, TypeInv, TypeOK, routerVars
  <2>2. TypeOK'
    BY <1>2, <2>1, ReturnType DEF Applied, TypeInv, TypeOK
  <2>3. QED
    BY <1>2, <2>2 DEF Applied, Return, TypeInv, Waiting
<1>3. CASE NothingChanged
  <2>1. TypeOK'
    BY <1>3, ReturnType DEF NothingChanged, TypeInv, TypeOK, routerVars, clientVars
  <2>2. pc' = "idle"
    BY <1>3 DEF NothingChanged, Return
  <2>3. QED
    BY <2>1, <2>2 DEF TypeInv, Waiting
<1>4. QED
  BY <1>1, <1>2, <1>3

LEMMA EnvironmentType ==
    ASSUME TypeInv, Expire \/ Edit
    PROVE  TypeInv'
<1>1. dhcp' \in Config
  BY HandmadeAssumption DEF Expire, Edit, TypeInv, TypeOK, Config
<1>2. alive' \subseteq Session /\ delta' \in [Session -> Staging]
  BY ChangeTypes DEF Expire, Edit, TypeInv, TypeOK
<1>3. TypeOK'
  BY <1>1, <1>2 DEF Expire, Edit, TypeInv, TypeOK, clientVars, localVars
<1>4. Waiting'
  BY DEF Expire, Edit, TypeInv, Waiting, Wanted, Refused, localVars
<1>5. QED
  BY <1>3, <1>4 DEF TypeInv

LEMMA RestartType ==
    ASSUME TypeInv, Restart
    PROVE  TypeInv'
<1>1. CASE pc = "idle"
  BY <1>1 DEF Restart, Reset, TypeInv, TypeOK, Waiting, routerVars, localVars
<1>2. CASE pc # "idle"
  BY <1>2, FailKeepsType DEF Restart, Fail
<1>3. QED
  BY <1>1, <1>2

LEMMA TypeStep ==
    ASSUME TypeInv, [AnyNext]_vars
    PROVE  TypeInv'
<1>1. CASE UNCHANGED vars
  BY <1>1 DEF vars, routerVars, clientVars, localVars, TypeInv, TypeOK, Waiting, Wanted, Refused
<1>2. CASE AnyReceive
  BY <1>2, ReceiveType
<1>3. CASE Login \/ LoginFails \/ Denied \/ CallFails \/ AnswerLost
  BY <1>3, LoginType, DeniedType, AnswerLostType, FailKeepsType DEF LoginFails, CallFails
<1>4. CASE Read
  BY <1>4, ReadType
<1>5. CASE RemoveRecord \/ NextRemoval \/ Deleted \/ RemovalsDone
  BY <1>5, RemovalsType
<1>6. CASE InvalidRecord \/ AlreadyPresent \/ AdoptRecord \/ SkipRecord \/ CreateSection
  BY <1>6, DecisionType
<1>7. CASE Adopted \/ Created
  BY <1>7, AdoptedType, CreatedType
<1>8. CASE NothingChanged \/ StartApply \/ Applied
  BY <1>8, EndingType
<1>9. CASE Expire \/ Edit
  BY <1>9, EnvironmentType
<1>10. CASE Restart
  BY <1>10, RestartType
<1>11. QED
  BY <1>1, <1>2, <1>3, <1>4, <1>5, <1>6, <1>7, <1>8, <1>9, <1>10 DEF AnyNext, SoleNext, Step

\* Type correctness, whoever else writes to the router.
THEOREM TypeCorrect == SharedSpec => []TypeOK
<1>1. Init => TypeInv
  BY InitType
<1>2. TypeInv /\ [Next \/ Edit]_vars => TypeInv'
  BY TypeStep, SharedIsAny
<1>3. TypeInv => TypeOK
  BY DEF TypeInv
<1>4. QED
  BY <1>1, <1>2, <1>3, PTL DEF SharedSpec

-----------------------------------------------------------------------------
(* What is staged is the change set at hand.  The client's staged flag is  *)
(* what makes it so: it says so of every session that holds a change, so a *)
(* session that expires with changes staged fails the change set.          *)

StagingInv ==
    /\ StagedIsIssued
    /\ issued # NothingStaged => staged /\ changed /\ session # NoSession
    /\ pc \in {"idle", "get"} => issued = NothingStaged

LEMMA InitStaging == Init => StagingInv
BY SessionAssumption DEF Init, StagingInv, StagedIsIssued

LEMMA FailKeepsStaging ==
    ASSUME Fail, NoSession \notin alive'
    PROVE  StagingInv'
BY DEF Fail, Reset, Return, StagingInv, StagedIsIssued

\* A change the router stages in the client's session and the change set notes.
LEMMA StageKeepsStaging ==
    ASSUME TypeOK, StagingInv, session \in alive, NEW s \in Section, NEW change \in Change,
           Stage(s, change), issued' = [issued EXCEPT ![s] = change],
           Tracked, changed' = TRUE, pc' \notin {"idle", "get"}
    PROVE  StagingInv'
<1>1. session' = session /\ session \in Session /\ delta'[session] = issued'
  BY DEF Stage, Tracked, StagingInv, StagedIsIssued, TypeOK, Staging
<1>2. QED
  BY <1>1, SessionAssumption DEF Tracked, StagingInv, StagedIsIssued

LEMMA StagingStep ==
    ASSUME TypeInv, TypeInv', StagingInv, [AnyNext]_vars
    PROVE  StagingInv'
<1>1. NoSession \notin alive /\ NoSession \notin alive'
  BY SessionAssumption DEF TypeInv, TypeOK
<1>2. CASE UNCHANGED vars
  BY <1>2 DEF vars, routerVars, clientVars, localVars, StagingInv, StagedIsIssued
<1>3. CASE AnyReceive
  <2>1. CASE pc = "idle" /\ Return("ok") /\ UNCHANGED <<routerVars, clientVars>>
    BY <2>1 DEF Return, routerVars, clientVars, StagingInv, StagedIsIssued
  <2>2. ASSUME NEW cs \in [remove : Seq(DNSRecord), add : Seq(DNSRecord)],
               ApplyDNSRecords(cs)
        PROVE  StagingInv'
    BY <2>2 DEF ApplyDNSRecords, routerVars, clientVars, StagingInv, StagedIsIssued
  <2>3. QED
    BY <1>3, <2>1, <2>2 DEF AnyReceive
<1>4. CASE Login
  <2>1. issued = NothingStaged
    BY <1>4 DEF Login, StagingInv
  <2>2. PICK s \in Session \ alive :
            session' = s /\ delta' = [delta EXCEPT ![s] = NothingStaged]
    BY <1>4 DEF Login
  <2>3. delta'[session'] = NothingStaged
    BY <2>2 DEF TypeInv, TypeOK
  <2>4. QED
    BY <1>4, <2>1, <2>3 DEF Login, Calling, localVars, StagingInv, StagedIsIssued
<1>5. CASE LoginFails \/ CallFails
  BY <1>1, <1>5, FailKeepsStaging DEF LoginFails, CallFails
<1>6. CASE Denied
  <2>1. CASE staged \/ retried
    BY <1>1, <1>6, <2>1, FailKeepsStaging DEF Denied
  <2>2. CASE ~ (staged \/ retried)
    BY <1>1, <1>6, <2>2 DEF Denied, Calling, localVars, StagingInv, StagedIsIssued
  <2>3. QED
    BY <2>1, <2>2
<1>7. CASE AnswerLost
  BY <1>1, <1>7, FailKeepsStaging DEF AnswerLost
<1>8. CASE Read \/ RemoveRecord \/ NextRemoval \/ RemovalsDone
  BY <1>8 DEF Read, RemoveRecord, NextRemoval, RemovalsDone,
              routerVars, clientVars, localVars, StagingInv, StagedIsIssued
<1>9. CASE Deleted
  <2>1. session \in alive /\ section \in Section
    BY <1>9 DEF Deleted, Answers, TypeInv, Waiting
  <2>2. QED
    BY <1>9, <2>1, StageKeepsStaging, ChangeTypes DEF Deleted, StageDelete, TypeInv
<1>10. CASE InvalidRecord
  BY <1>1, <1>10, FailKeepsStaging DEF InvalidRecord
<1>11. CASE AlreadyPresent \/ AdoptRecord \/ SkipRecord \/ CreateSection
  BY <1>11 DEF AlreadyPresent, AdoptRecord, SkipRecord, CreateSection, Adding,
               routerVars, clientVars, localVars, StagingInv, StagedIsIssued
<1>12. CASE Adopted
  <2>1. session \in alive /\ section \in Section /\ session \in Session
    BY <1>12 DEF Adopted, Answers, TypeInv, TypeOK, Waiting
  <2>2. CASE UNCHANGED routerVars
    <3>1. delta' = delta /\ alive' = alive /\ session' = session
      BY <1>12, <2>2 DEF Adopted, Tracked, routerVars
    <3>2. issued' = issued
      BY <1>12, <2>1, <3>1 DEF Adopted, StagingInv, StagedIsIssued, TypeInv, TypeOK, Staging
    <3>3. QED
      BY <1>12, <2>1, <3>1, <3>2, SessionAssumption
         DEF Adopted, Tracked, StagingInv, StagedIsIssued
  <2>3. CASE Stage(section, SetOwner(OwnershipID))
    <3>1. delta'[session][section] = SetOwner(OwnershipID)
      BY <2>1, <2>3 DEF Stage, TypeInv, TypeOK, Staging
    <3>2. issued' = [issued EXCEPT ![section] = SetOwner(OwnershipID)]
      BY <1>12, <3>1 DEF Adopted
    <3>3. QED
      BY <1>12, <2>1, <2>3, <3>2, StageKeepsStaging, ChangeTypes, OwnershipAssumption
         DEF Adopted, TypeInv
  <2>4. QED
    BY <1>12, <2>2, <2>3 DEF Adopted, StageSet
<1>13. CASE Created
  <2>1. session \in alive /\ AddSection(NewSection) \in Change
    BY <1>13, NewSectionType, ChangeTypes DEF Created, Answers, TypeInv, Waiting
  <2>2. PICK s \in Section :
            /\ Stage(s, AddSection(NewSection))
            /\ issued' = [issued EXCEPT ![s] = AddSection(NewSection)]
    BY <1>13 DEF Created, StageAdd
  <2>3. QED
    BY <1>13, <2>1, <2>2, StageKeepsStaging DEF Created, TypeInv
<1>14. CASE NothingChanged
  BY <1>14 DEF NothingChanged, Return, routerVars, clientVars, StagingInv, StagedIsIssued
<1>15. CASE StartApply
  BY <1>15 DEF StartApply, routerVars, clientVars, localVars, StagingInv, StagedIsIssued
<1>16. CASE Applied
  <2>1. session \in Session
    BY <1>16 DEF Applied, TypeInv, TypeOK
  <2>2. delta'[session'] = NothingStaged
    BY <1>16, <2>1 DEF Applied, Commit, TypeInv, TypeOK, routerVars
  <2>3. QED
    BY <1>16, <2>2 DEF Applied, Return, StagingInv, StagedIsIssued
<1>17. CASE Expire
  <2>1. session \in alive' => session \in alive /\ delta'[session] = delta[session]
    BY <1>17 DEF Expire, TypeInv, TypeOK
  <2>2. QED
    BY <1>17, <2>1 DEF Expire, clientVars, localVars, StagingInv, StagedIsIssued
<1>18. CASE Edit
  BY <1>18 DEF Edit, clientVars, localVars, StagingInv, StagedIsIssued
<1>19. CASE Restart
  <2>1. NoSession \notin alive' /\ session' = NoSession
    BY <1>19, SessionAssumption DEF Restart, Reset, routerVars, TypeInv, TypeOK
  <2>2. CASE pc = "idle"
    BY <1>19, <2>1, <2>2 DEF Restart, localVars, StagingInv, StagedIsIssued
  <2>3. CASE pc # "idle"
    BY <1>19, <2>1, <2>3, FailKeepsStaging DEF Restart, Fail
  <2>4. QED
    BY <2>2, <2>3
<1>20. QED
  BY <1>2, <1>3, <1>4, <1>5, <1>6, <1>7, <1>8, <1>9, <1>10, <1>11, <1>12, <1>13, <1>14,
     <1>15, <1>16, <1>17, <1>18, <1>19 DEF AnyNext, SoleNext, Step

\* What the client's session has staged is the change set at hand, whole, and
\* nothing between change sets; whoever else writes to the router, and however
\* many sessions expire (openwrt.go:175-182, ubus.go:163-216).
THEOREM StagedIsIssuedAlways == SharedSpec => []StagedIsIssued
<1>1. Init => TypeInv /\ StagingInv
  BY InitType, InitStaging
<1>2. TypeInv /\ StagingInv /\ [Next \/ Edit]_vars => TypeInv' /\ StagingInv'
  <2> SUFFICES ASSUME TypeInv, StagingInv, [Next \/ Edit]_vars
               PROVE  TypeInv' /\ StagingInv'
    OBVIOUS
  <2>1. TypeInv'
    BY TypeStep, SharedIsAny
  <2>2. QED
    BY <2>1, StagingStep, SharedIsAny
<1>3. TypeInv /\ StagingInv => StagedIsIssued
  BY DEF StagingInv
<1>4. QED
  BY <1>1, <1>2, <1>3, PTL DEF SharedSpec

-----------------------------------------------------------------------------
(* A section that is staged to be added is nobody else's, and is not there *)
(* until it is committed.                                                  *)

AddInv ==
    \A t \in Session, s \in Section :
        delta[t][s].op = "add" =>
            dhcp[s] = Absent /\ \A u \in Session \ {t} : delta[u][s] = Keep

\* All that becomes of what is committed and what is staged.
LEMMA RouterSteps ==
    ASSUME TypeInv, [AnyNext]_vars
    PROVE  \/ UNCHANGED <<dhcp, delta>>
           \/ dhcp' = dhcp /\ \E t \in Session : delta' = [delta EXCEPT ![t] = NothingStaged]
           \/ /\ session \in Session /\ section \in Section /\ Seen[section] # Absent
              /\ Stage(section, Delete) \/ Stage(section, SetOwner(OwnershipID))
           \/ session \in Session /\ \E s \in Section : StageAdd(s)
           \/ session \in Session /\ Commit
           \/ Edit /\ pc' = pc
<1>1. alive \subseteq Session /\ (pc \in {"delete", "set"} => section \in Section)
  BY DEF TypeInv, TypeOK, Waiting
<1>2. CASE Login \/ Expire
  BY <1>1, <1>2 DEF Login, Expire
<1>3. CASE AnswerLost
  BY <1>1, <1>3 DEF AnswerLost, Answers, StageDelete, StageSet, routerVars
<1>4. CASE Deleted \/ Adopted
  BY <1>1, <1>4 DEF Deleted, Adopted, Answers, StageDelete, StageSet, routerVars
<1>5. CASE Created
  BY <1>1, <1>5 DEF Created, Answers
<1>6. CASE Applied
  BY <1>1, <1>6 DEF Applied, Answers, routerVars
<1>7. CASE Edit
  BY <1>7 DEF Edit
<1>8. CASE AnyReceive \/ LoginFails \/ Denied \/ CallFails \/ Restart \/ UNCHANGED vars
  BY <1>8 DEF AnyReceive, ApplyDNSRecords, LoginFails, Denied, CallFails, Restart,
              routerVars, vars
<1>9. CASE Read \/ RemoveRecord \/ NextRemoval \/ RemovalsDone
  BY <1>9 DEF Read, RemoveRecord, NextRemoval, RemovalsDone, routerVars
<1>10. CASE InvalidRecord \/ AlreadyPresent \/ AdoptRecord \/ SkipRecord \/ CreateSection
  BY <1>10 DEF InvalidRecord, AlreadyPresent, AdoptRecord, SkipRecord, CreateSection, routerVars
<1>11. CASE NothingChanged \/ StartApply
  BY <1>11 DEF NothingChanged, StartApply, routerVars
<1>12. QED
  BY <1>2, <1>3, <1>4, <1>5, <1>6, <1>7, <1>8, <1>9, <1>10, <1>11 DEF AnyNext, SoleNext, Step

LEMMA AddStep ==
    ASSUME TypeInv, AddInv, [AnyNext]_vars
    PROVE  AddInv'
<1>1. /\ delta \in [Session -> Staging]
      /\ \A t \in Session, s \in Section : delta[t][s] \in Change
  BY DEF TypeInv, TypeOK, Staging
<1>2. /\ Keep.op # "add" /\ Delete.op # "add" /\ SetOwner(OwnershipID).op # "add"
      /\ \A s \in Section : NothingStaged[s] = Keep
  BY DEF Keep, Delete, SetOwner, NothingStaged
<1>3. CASE UNCHANGED <<dhcp, delta>>
  BY <1>3 DEF AddInv
<1>4. CASE dhcp' = dhcp /\ \E t \in Session : delta' = [delta EXCEPT ![t] = NothingStaged]
  <2>1. PICK t \in Session : delta' = [delta EXCEPT ![t] = NothingStaged]
    BY <1>4
  <2>2. \A u \in Session, s \in Section : delta'[u][s] = IF u = t THEN Keep ELSE delta[u][s]
    BY <1>1, <1>2, <2>1
  <2>3. QED
    BY <1>2, <1>4, <2>2 DEF AddInv
<1>5. CASE /\ session \in Session /\ section \in Section /\ Seen[section] # Absent
           /\ Stage(section, Delete) \/ Stage(section, SetOwner(OwnershipID))
  <2>1. PICK change \in {Delete, SetOwner(OwnershipID)} : Stage(section, change)
    BY <1>5
  <2>2. /\ dhcp' = dhcp
        /\ \A u \in Session, s \in Section :
               delta'[u][s] = IF u = session /\ s = section THEN change ELSE delta[u][s]
    BY <1>1, <1>5, <2>1 DEF Stage, Staging
  <2>3. \A u \in Session \ {session} : delta[u][section].op # "add"
    BY <1>5 DEF AddInv, Seen, View, Replay, Keep
  <2>4. change.op # "add"
    BY <1>2, <2>1
  <2>5. QED
    BY <2>2, <2>3, <2>4 DEF AddInv
<1>6. CASE session \in Session /\ \E s \in Section : StageAdd(s)
  <2>1. PICK s \in Section : Fresh(s) /\ Stage(s, AddSection(NewSection))
    BY <1>6 DEF StageAdd
  <2>2. /\ dhcp' = dhcp
        /\ \A u \in Session, t \in Section :
               delta'[u][t] = IF u = session /\ t = s THEN AddSection(NewSection) ELSE delta[u][t]
    BY <1>1, <1>6, <2>1 DEF Stage, Staging
  <2>3. QED
    BY <1>2, <2>1, <2>2 DEF AddInv, Fresh
<1>7. CASE session \in Session /\ Commit
  <2>1. \A u \in Session, s \in Section :
            delta'[u][s] = IF u = session THEN Keep ELSE delta[u][s]
    BY <1>1, <1>2, <1>7 DEF Commit
  <2>2. \A s \in Section : delta[session][s] = Keep => dhcp'[s] = dhcp[s]
    BY <1>7 DEF Commit, Seen, View, Replay, Keep
  <2>3. QED
    BY <1>2, <1>7, <2>1, <2>2 DEF AddInv
<1>8. CASE Edit
  <2>1. PICK s \in Section, held \in Handmade :
            (dhcp[s] = Absent => Fresh(s)) /\ dhcp' = [dhcp EXCEPT ![s] = held]
    BY <1>8 DEF Edit
  <2>2. delta' = delta
    BY <1>8 DEF Edit
  <2>3. \A t \in Section \ {s} : dhcp'[t] = dhcp[t]
    BY <2>1 DEF TypeInv, TypeOK, Config
  <2>4. \A u \in Session : delta[u][s].op # "add"
    BY <1>2, <2>1 DEF AddInv, Fresh
  <2>5. QED
    BY <2>2, <2>3, <2>4 DEF AddInv
<1>9. QED
  BY <1>3, <1>4, <1>5, <1>6, <1>7, <1>8, RouterSteps

\* A section keeps all but its marker when a change that adds nothing is replayed on it.
LEMMA ReplayKeeps ==
    ASSUME NEW held \in DNSRecord, NEW change \in Change, change.op # "add",
           Replay(held, change) # Absent
    PROVE  Replay(held, change) = [held EXCEPT !.Owner = Replay(held, change).Owner]
<1>1. CASE change = Keep
  BY <1>1 DEF Replay, Keep, DNSRecord
<1>2. CASE change = Delete
  BY <1>2 DEF Replay, Delete
<1>3. CASE change \in [op : {"set"}, owner : Owner]
  BY <1>3 DEF Replay, DNSRecord
<1>4. QED
  BY <1>1, <1>2, <1>3 DEF Change

\* A change set that ends keeps every section that is there before and after, but for
\* its marker.
LEMMA KeepsSections ==
    ASSUME TypeInv, AddInv, [AnyNext]_vars, pc = "apply", pc' = "idle",
           NEW s \in Section, dhcp[s] # Absent, dhcp'[s] # Absent
    PROVE  dhcp'[s] = [dhcp[s] EXCEPT !.Owner = dhcp'[s].Owner]
<1>1. dhcp[s] \in DNSRecord /\ Keep \in Change
  BY ChangeTypes DEF TypeInv, TypeOK, Config
<1>2. CASE dhcp' = dhcp
  <2>1. Replay(dhcp[s], Keep) = dhcp[s] /\ Keep.op # "add"
    BY DEF Replay, Keep
  <2>2. QED
    BY <1>1, <1>2, <2>1, ReplayKeeps
<1>3. CASE session \in Session /\ Commit
  <2>1. delta[session][s] \in Change /\ delta[session][s].op # "add"
    BY <1>3 DEF TypeInv, TypeOK, Staging, AddInv
  <2>2. dhcp'[s] = Replay(dhcp[s], delta[session][s])
    BY <1>3 DEF Commit, Seen, View
  <2>3. QED
    BY <1>1, <2>1, <2>2, ReplayKeeps
<1>4. QED
  BY <1>2, <1>3, RouterSteps DEF Stage, StageAdd

\* Whoever else writes, and whatever other sessions hold, a change set puts no section
\* of its own in the place of another (openwrt.go:356-359).
THEOREM NothingIsReplaced == SharedSpec => AddsReplaceNothing
<1>1. Init => TypeInv /\ AddInv
  BY InitType DEF Init, AddInv, NothingStaged, Keep
<1>2. TypeInv /\ AddInv /\ [Next \/ Edit]_vars =>
          [\A s \in Section :
              pc = "apply" /\ pc' = "idle" /\ dhcp[s] # Absent /\ dhcp'[s] # Absent
                  => dhcp'[s] = [dhcp[s] EXCEPT !.Owner = dhcp'[s].Owner]]_vars
  BY KeepsSections, SharedIsAny
<1>3. TypeInv /\ AddInv /\ [Next \/ Edit]_vars => TypeInv' /\ AddInv'
  BY TypeStep, AddStep, SharedIsAny
<1>4. QED
  BY <1>1, <1>2, <1>3, PTL DEF SharedSpec, AddsReplaceNothing

-----------------------------------------------------------------------------
(* With nobody else writing, the index is what the router would hold if    *)
(* the change set were applied now: what addRecord and removeRecord decide *)
(* on the index they decide on what the apply commits.                     *)

Deciding == {"removes", "delete", "adds", "set", "create", "apply"}

\* All a change set ever stages: what it writes carries this provider's ID.
OwnChange ==
    {Keep, Delete, SetOwner(OwnershipID)}
        \cup {AddSection(r) : r \in {r \in DNSRecord : r.Owner = OwnershipID}}

IndexInv ==
    /\ pc \in Deciding => index = newSectionIndex(View(dhcp, issued))
    /\ \A s \in Section : issued[s] \in OwnChange

\* Staging one change and updating the index for it keep the two together.
LEMMA StagedSection ==
    ASSUME NEW config \in Config, NEW staging \in Staging, NEW s \in Section,
           NEW change \in Change, NEW held,
           parseSection(Replay(config[s], change)) = held
    PROVE  newSectionIndex(View(config, [staging EXCEPT ![s] = change]))
               = [newSectionIndex(View(config, staging)) EXCEPT ![s] = held]
BY DEF newSectionIndex, View, Config, Staging

LEMMA IndexAfterDelete ==
    ASSUME NEW config \in Config, NEW staging \in Staging, NEW s \in Section
    PROVE  newSectionIndex(View(config, [staging EXCEPT ![s] = Delete]))
               = drop(newSectionIndex(View(config, staging)), s)
<1>1. parseSection(Replay(config[s], Delete)) = Absent
  BY DEF Replay, Delete, parseSection
<1>2. QED
  BY <1>1, StagedSection, ChangeTypes DEF drop

\* An unmarked section of the index is committed as it is: a change staged to
\* it would have deleted it or marked it.
LEMMA UnmarkedIsCommitted ==
    ASSUME NEW config \in Config, NEW staging \in Staging, NEW s \in Section,
           OwnershipEnabled,
           staging[s] \in OwnChange,
           newSectionIndex(View(config, staging))[s] # Absent,
           newSectionIndex(View(config, staging))[s].Owner = NoOwner
    PROVE  /\ staging[s] = Keep
           /\ config[s] \in DNSRecord /\ Represents(config[s])
           /\ newSectionIndex(View(config, staging))[s] = Canonical(config[s])
           /\ config[s].Owner = NoOwner
<1> DEFINE held == Replay(config[s], staging[s])
<1>1. held \in DNSRecord \cup {Absent}
  BY ReplayType DEF Config, Staging
<1>2. newSectionIndex(View(config, staging))[s] = parseSection(held)
  BY DEF newSectionIndex, View
<1>3. held \in DNSRecord /\ Represents(held) /\ parseSection(held) = Canonical(held)
  BY <1>1, <1>2, ParsedSection
<1>4. held.Owner = NoOwner
  BY <1>2, <1>3, CanonicalRecord
<1>5. staging[s] # Delete
  BY <1>3, SectionAssumption DEF Replay, Delete
<1>6. staging[s] # SetOwner(OwnershipID)
  <2> SUFFICES ASSUME staging[s] = SetOwner(OwnershipID) PROVE FALSE
    OBVIOUS
  <2>1. held = [config[s] EXCEPT !.Owner = OwnershipID] /\ config[s] \in DNSRecord
    BY <1>3, SectionAssumption DEF Replay, SetOwner, Config
  <2>2. held.Owner = OwnershipID
    BY <2>1 DEF DNSRecord
  <2>3. QED
    BY <2>2, <1>4 DEF OwnershipEnabled
<1>7. \A r \in DNSRecord : r.Owner = OwnershipID => staging[s] # AddSection(r)
  BY <1>4 DEF Replay, AddSection, OwnershipEnabled
<1>8. staging[s] = Keep
  BY <1>5, <1>6, <1>7 DEF OwnChange
<1>9. held = config[s]
  BY <1>8 DEF Replay, Keep
<1>10. QED
  BY <1>2, <1>3, <1>4, <1>8, <1>9

LEMMA IndexAfterMark ==
    ASSUME NEW config \in Config, NEW staging \in Staging, NEW s \in Section,
           staging[s] = Keep, config[s] \in DNSRecord, Represents(config[s])
    PROVE  newSectionIndex(View(config, [staging EXCEPT ![s] = SetOwner(OwnershipID)]))
               = markOwned(newSectionIndex(View(config, staging)), s, OwnershipID)
<1> DEFINE marked == [config[s] EXCEPT !.Owner = OwnershipID]
           index0 == newSectionIndex(View(config, staging))
<1>1. Replay(config[s], SetOwner(OwnershipID)) = marked
  BY SectionAssumption DEF Replay, SetOwner
<1>2. /\ marked \in DNSRecord /\ Represents(marked)
      /\ Canonical(marked) = [Canonical(config[s]) EXCEPT !.Owner = OwnershipID]
  BY OwnerKeepsCanonical, OwnershipAssumption
<1>3. parseSection(marked) = [Canonical(config[s]) EXCEPT !.Owner = OwnershipID]
  BY <1>2, SectionAssumption DEF parseSection
<1>4. index0[s] = Canonical(config[s])
  BY SectionAssumption DEF newSectionIndex, View, Replay, Keep, parseSection
<1>5. newSectionIndex(View(config, [staging EXCEPT ![s] = SetOwner(OwnershipID)]))
          = [index0 EXCEPT ![s] = [Canonical(config[s]) EXCEPT !.Owner = OwnershipID]]
  BY <1>1, <1>3, StagedSection, ChangeTypes, OwnershipAssumption
<1>6. QED
  BY <1>4, <1>5 DEF markOwned

\* A valid record is read back as it was written.
LEMMA NewSectionParsed ==
    ASSUME NEW r \in DNSRecord, Validate(r)
    PROVE  LET new == [Canonical(r) EXCEPT !.Owner = OwnershipID]
           IN  new \in DNSRecord /\ parseSection(new) = new
<1> DEFINE new == [Canonical(r) EXCEPT !.Owner = OwnershipID]
<1>1. new \in DNSRecord /\ Canonical(new) = new
  BY CanonicalRecord, OwnerKeepsCanonical, OwnershipAssumption
<1>2. Represents(Canonical(r))
  <2>1. CASE r.Type = "A"
    BY <2>1, CanonicalRecord, AddressAssumption DEF Represents, Validate, Writable
  <2>2. CASE r.Type = "CNAME"
    BY <2>2, CanonicalRecord DEF Represents, Validate, Writable
  <2>3. QED
    BY <2>1, <2>2 DEF DNSRecord
<1>3. Represents(new)
  BY <1>2, CanonicalRecord, OwnerKeepsCanonical, OwnershipAssumption
<1>4. QED
  BY <1>1, <1>3, SectionAssumption DEF parseSection

LEMMA IndexAfterAdd ==
    ASSUME NEW config \in Config, NEW staging \in Staging, NEW s \in Section,
           NEW r \in DNSRecord, Validate(r)
    PROVE  newSectionIndex(View(config,
               [staging EXCEPT ![s] = AddSection([Canonical(r) EXCEPT !.Owner = OwnershipID])]))
               = add(newSectionIndex(View(config, staging)), r, s, OwnershipID)
<1> DEFINE new == [Canonical(r) EXCEPT !.Owner = OwnershipID]
<1>1. new \in DNSRecord /\ parseSection(new) = new
  BY NewSectionParsed
<1>2. Replay(config[s], AddSection(new)) = new
  BY DEF Replay, AddSection
<1>3. QED
  BY <1>1, <1>2, StagedSection, ChangeTypes DEF add

\* What the answered calls do to what is staged and to the index.
LEMMA DeletedEffect ==
    ASSUME TypeInv, IndexInv, Deleted
    PROVE  /\ section \in Section
           /\ dhcp' = dhcp
           /\ issued' = [issued EXCEPT ![section] = Delete]
           /\ index' = drop(index, section)
           /\ index' = newSectionIndex(View(dhcp', issued'))
<1>1. section \in Section /\ dhcp \in Config /\ issued \in Staging
  BY DEF Deleted, TypeInv, TypeOK, Waiting
<1>2. index = newSectionIndex(View(dhcp, issued))
  BY DEF Deleted, IndexInv, Deciding
<1>3. dhcp' = dhcp /\ issued' = [issued EXCEPT ![section] = Delete] /\ index' = drop(index, section)
  BY DEF Deleted, StageDelete, Stage
<1>4. QED
  BY <1>1, <1>2, <1>3, IndexAfterDelete

LEMMA AdoptedEffect ==
    ASSUME TypeInv, StagingInv, IndexInv, Adopted
    PROVE  /\ OwnershipEnabled /\ section \in Section
           /\ index[section] # Absent /\ index[section].Owner = NoOwner
           /\ issued[section] = Keep
           /\ dhcp[section] \in DNSRecord
           /\ index[section] = parseSection(dhcp[section])
           /\ dhcp' = dhcp
           /\ issued' = [issued EXCEPT ![section] = SetOwner(OwnershipID)]
           /\ index' = markOwned(index, section, OwnershipID)
           /\ index' = newSectionIndex(View(dhcp', issued'))
<1>1. /\ section \in Section /\ dhcp \in Config /\ issued \in Staging /\ index \in Config
      /\ OwnershipEnabled /\ index[section] # Absent /\ index[section].Owner = NoOwner
      /\ session \in alive /\ session \in Session
  BY DEF Adopted, Answers, TypeInv, TypeOK, Waiting
<1>2. index = newSectionIndex(View(dhcp, issued))
  BY DEF Adopted, IndexInv, Deciding
<1>3. /\ issued[section] = Keep
      /\ dhcp[section] \in DNSRecord /\ Represents(dhcp[section])
      /\ index[section] = Canonical(dhcp[section])
      /\ dhcp[section].Owner = NoOwner
  BY <1>1, <1>2, UnmarkedIsCommitted DEF IndexInv
<1>4. Seen[section] = dhcp[section]
  BY <1>1, <1>3 DEF Seen, View, Replay, Keep, StagingInv, StagedIsIssued
<1>5. Stage(section, SetOwner(OwnershipID))
  BY <1>1, <1>3, <1>4 DEF Adopted, StageSet, OwnershipEnabled
<1>6. delta'[session][section] = SetOwner(OwnershipID)
  BY <1>1, <1>5 DEF Stage, TypeInv, TypeOK, Staging
<1>7. /\ dhcp' = dhcp
      /\ issued' = [issued EXCEPT ![section] = SetOwner(OwnershipID)]
      /\ index' = markOwned(index, section, OwnershipID)
  BY <1>5, <1>6 DEF Adopted, Stage
<1>8. index' = newSectionIndex(View(dhcp', issued'))
  BY <1>1, <1>2, <1>3, <1>7, IndexAfterMark
<1>9. index[section] = parseSection(dhcp[section])
  BY <1>3, SectionAssumption DEF parseSection
<1>10. QED
  BY <1>1, <1>3, <1>7, <1>8, <1>9

LEMMA CreatedEffect ==
    ASSUME TypeInv, StagingInv, IndexInv, Created
    PROVE  /\ toAdd # <<>> /\ Wanted \in DNSRecord /\ Validate(Wanted) /\ ~ Refused(Wanted)
           /\ dhcp' = dhcp
           /\ \E s \in Section :
                  /\ dhcp[s] = Absent /\ issued[s] = Keep /\ index[s] = Absent
                  /\ issued' = [issued EXCEPT ![s] = AddSection(NewSection)]
                  /\ index' = add(index, Wanted, s, OwnershipID)
                  /\ index' = newSectionIndex(View(dhcp', issued'))
<1>1. /\ dhcp \in Config /\ issued \in Staging
      /\ toAdd # <<>> /\ Wanted \in DNSRecord /\ Validate(Wanted) /\ ~ Refused(Wanted)
      /\ session \in alive /\ session \in Session
  BY HeadAndTail DEF Created, Answers, TypeInv, TypeOK, Waiting, Wanted
<1>2. index = newSectionIndex(View(dhcp, issued))
  BY DEF Created, IndexInv, Deciding
<1>3. PICK s \in Section :
          /\ StageAdd(s)
          /\ issued' = [issued EXCEPT ![s] = AddSection(NewSection)]
          /\ index' = add(index, Wanted, s, OwnershipID)
  BY DEF Created, Wanted
<1>4. dhcp' = dhcp /\ dhcp[s] = Absent /\ issued[s] = Keep
  BY <1>1, <1>3 DEF StageAdd, Stage, Fresh, StagingInv, StagedIsIssued
<1>5. index[s] = Absent
  BY <1>2, <1>4 DEF newSectionIndex, View, Replay, Keep, parseSection
<1>6. index' = newSectionIndex(View(dhcp', issued'))
  BY <1>1, <1>2, <1>3, <1>4, IndexAfterAdd DEF NewSection, Wanted
<1>7. QED
  BY <1>1, <1>3, <1>4, <1>5, <1>6

\* An apply commits what the index holds.
LEMMA CommitEffect ==
    ASSUME TypeInv, StagingInv, IndexInv, pc = "apply", session \in alive, Commit
    PROVE  dhcp' = View(dhcp, issued) /\ Served' = index
<1>1. dhcp' = View(dhcp, issued)
  BY DEF Commit, Seen, StagingInv, StagedIsIssued
<1>2. QED
  BY <1>1 DEF Served, IndexInv, Deciding

\* One that has nothing to commit finds the router as the index has it.
LEMMA NothingToCommit ==
    ASSUME TypeInv, IndexInv, pc \in Deciding, issued = NothingStaged
    PROVE  dhcp = View(dhcp, issued) /\ Served = index
<1>1. View(dhcp, NothingStaged) = dhcp
  BY DEF View, Replay, NothingStaged, Keep, Config, TypeInv, TypeOK
<1>2. QED
  BY <1>1 DEF Served, IndexInv

\* The change set ends.
LEMMA ReturnKeepsIndex ==
    ASSUME NEW r, Return(r)
    PROVE  IndexInv'
BY DEF Return, IndexInv, Deciding, NothingStaged, OwnChange

\* Steps that leave the committed sections, the index and what is staged alone.
LEMMA QuietKeepsIndex ==
    ASSUME IndexInv, UNCHANGED <<dhcp, index, issued>>, pc' \in Deciding => pc \in Deciding
    PROVE  IndexInv'
BY DEF IndexInv

\* The snapshot is taken with nothing staged.
LEMMA ReadEffect ==
    ASSUME TypeInv, StagingInv, Read
    PROVE  index' = Served /\ View(dhcp, issued) = dhcp
<1>1. issued = NothingStaged /\ delta[session] = issued /\ dhcp \in Config
  BY DEF Read, Answers, TypeInv, TypeOK, StagingInv, StagedIsIssued
<1>2. View(dhcp, NothingStaged) = dhcp
  BY <1>1 DEF View, Replay, NothingStaged, Keep, Config
<1>3. QED
  BY <1>1, <1>2 DEF Read, Seen, Served

LEMMA AnsweredKeepsIndex ==
    ASSUME TypeInv, StagingInv, IndexInv, Deleted \/ Adopted \/ Created
    PROVE  IndexInv'
<1>1. issued \in Staging
  BY DEF TypeInv, TypeOK
<1>2. CASE Deleted
  BY <1>1, <1>2, DeletedEffect DEF IndexInv, OwnChange, Staging
<1>3. CASE Adopted
  BY <1>1, <1>3, AdoptedEffect DEF IndexInv, OwnChange, Staging
<1>4. CASE Created
  <2>1. NewSection \in DNSRecord /\ NewSection.Owner = OwnershipID
    BY <1>4, CreatedEffect, CanonicalRecord, OwnerKeepsCanonical, OwnershipAssumption
       DEF NewSection, Wanted, DNSRecord
  <2>2. AddSection(NewSection) \in OwnChange
    BY <2>1 DEF OwnChange
  <2>3. QED
    BY <1>1, <1>4, <2>2, CreatedEffect DEF IndexInv, Staging
<1>5. QED
  BY <1>2, <1>3, <1>4

LEMMA InitIndex == Init => IndexInv
BY DEF Init, IndexInv, Deciding, NothingStaged, OwnChange

LEMMA IndexStep ==
    ASSUME TypeInv, StagingInv, IndexInv, [SoleNext]_vars
    PROVE  IndexInv'
<1>1. CASE UNCHANGED vars
  BY <1>1, QuietKeepsIndex DEF vars, routerVars, localVars
<1>2. CASE \/ Return("ok")
           \/ LoginFails \/ CallFails \/ AnswerLost \/ InvalidRecord \/ NothingChanged \/ Applied
  BY <1>2, ReturnKeepsIndex
     DEF LoginFails, CallFails, AnswerLost, InvalidRecord, NothingChanged, Applied, Fail
<1>3. ASSUME NEW cs \in [remove : Seq(DNSRecord), add : Seq(DNSRecord)], ApplyDNSRecords(cs)
      PROVE  IndexInv'
  BY <1>3, QuietKeepsIndex DEF ApplyDNSRecords, routerVars, Deciding
<1>4. CASE Login \/ Expire
  BY <1>4, QuietKeepsIndex DEF Login, Expire, localVars
<1>5. CASE Denied
  <2>1. CASE staged \/ retried
    BY <1>5, <2>1, ReturnKeepsIndex DEF Denied, Fail
  <2>2. CASE ~ (staged \/ retried)
    BY <1>5, <2>2, QuietKeepsIndex DEF Denied, localVars, routerVars
  <2>3. QED
    BY <2>1, <2>2
<1>6. CASE Read
  BY <1>6, ReadEffect DEF Read, IndexInv, Served, routerVars
<1>7. CASE RemoveRecord \/ NextRemoval \/ RemovalsDone
  BY <1>7, QuietKeepsIndex
     DEF RemoveRecord, NextRemoval, RemovalsDone, routerVars, localVars, Deciding
<1>8. CASE Deleted \/ Adopted \/ Created
  BY <1>8, AnsweredKeepsIndex
<1>9. CASE AlreadyPresent \/ AdoptRecord \/ SkipRecord \/ CreateSection \/ StartApply
  BY <1>9, QuietKeepsIndex
     DEF AlreadyPresent, AdoptRecord, SkipRecord, CreateSection, Adding, StartApply,
         routerVars, localVars, Deciding
<1>10. CASE Restart
  <2>1. CASE pc = "idle"
    BY <1>10, <2>1, QuietKeepsIndex DEF Restart, routerVars, localVars
  <2>2. CASE pc # "idle"
    BY <1>10, <2>2, ReturnKeepsIndex DEF Restart
  <2>3. QED
    BY <2>1, <2>2
<1>11. QED
  BY <1>1, <1>2, <1>3, <1>4, <1>5, <1>6, <1>7, <1>8, <1>9, <1>10 DEF SoleNext, Step, AnyReceive

-----------------------------------------------------------------------------
(* dnsmasq starts on what is committed, as long as nobody else writes: the *)
(* checks of addRecord keep the index sound, and the index is what the     *)
(* apply commits.                                                          *)

Sound(idx) == Startable(idx) /\ NothingHidden(idx)

SoundInv == Sound(index) /\ Sound(Served)

LEMMA NoSectionsSound == Sound(NoSections)
BY DEF NoSections, Sound, Startable, OneCNAMEPerAlias, NoCNAMELoop, Loop, NothingHidden,
       Aliases, Addresses

LEMMA InitSound == ASSUME SafeAtStart PROVE Init => SoundInv
<1> SUFFICES ASSUME Init PROVE SoundInv
  OBVIOUS
<1>1. Sound(Served)
  BY DEF SafeAtStart, Init, Served, Sound
<1>2. QED
  BY <1>1, NoSectionsSound DEF Init, SoundInv

LEMMA CreatedKeepsSound ==
    ASSUME TypeInv, StagingInv, IndexInv, SoundInv, Created
    PROVE  Sound(index')
<1>1. index \in Config /\ Wanted \in DNSRecord /\ ~ Refused(Wanted)
  BY CreatedEffect DEF TypeInv, TypeOK
<1>2. PICK s \in Section : index[s] = Absent /\ index' = add(index, Wanted, s, OwnershipID)
  BY CreatedEffect
<1>3. CASE Wanted.Type = "A"
  BY <1>1, <1>2, <1>3, AddAddressKeepsSafe, AddHidesNothing DEF SoundInv, Sound, Refused
<1>4. CASE Wanted.Type = "CNAME"
  BY <1>1, <1>2, <1>4, AddAliasKeepsSafe, AddHidesNothing DEF SoundInv, Sound, Refused
<1>5. QED
  BY <1>1, <1>3, <1>4 DEF DNSRecord

\* A step either leaves the index and the committed sections as they are,
\* returns, or is the answer to one of the calls.
LEMMA SoundStep ==
    ASSUME TypeInv, StagingInv, IndexInv, SoundInv, [SoleNext]_vars
    PROVE  SoundInv'
<1>1. index \in Config
  BY DEF TypeInv, TypeOK
<1>2. CASE UNCHANGED <<dhcp, index>>
  BY <1>2 DEF SoundInv, Served
<1>3. CASE index' = NoSections /\ dhcp' = dhcp
  BY <1>3, NoSectionsSound DEF SoundInv, Served
<1>4. CASE index' = NoSections /\ pc = "apply" /\ session \in alive /\ Commit
  BY <1>4, CommitEffect, NoSectionsSound DEF SoundInv
<1>5. CASE Read
  <2>1. index' = Served /\ Served' = Served
    BY <1>5, ReadEffect DEF Read, routerVars, Served
  <2>2. QED
    BY <2>1 DEF SoundInv
<1>6. CASE Deleted
  <2>1. Sound(index')
    BY <1>1, <1>6, DeletedEffect, DropKeepsSafe, DropHidesNothing DEF SoundInv, Sound
  <2>2. QED
    BY <1>6, <2>1, DeletedEffect DEF SoundInv, Served
<1>7. CASE Adopted
  <2>1. Sound(index')
    BY <1>1, <1>7, AdoptedEffect, MarkKeepsSafe, MarkHidesNothing DEF SoundInv, Sound
  <2>2. QED
    BY <1>7, <2>1, AdoptedEffect DEF SoundInv, Served
<1>8. CASE Created
  BY <1>8, CreatedKeepsSound, CreatedEffect DEF SoundInv, Served
<1>9. QED
  <2>1. CASE UNCHANGED vars
    BY <1>2, <2>1 DEF vars, routerVars, localVars
  <2>2. CASE AnyReceive
    BY <1>2, <1>3, <2>2 DEF AnyReceive, ApplyDNSRecords, Return, routerVars
  <2>3. CASE Login \/ Expire
    BY <1>2, <2>3 DEF Login, Expire, localVars
  <2>4. CASE LoginFails \/ CallFails \/ InvalidRecord
    BY <1>3, <2>4 DEF LoginFails, CallFails, InvalidRecord, Fail, Return, routerVars
  <2>5. CASE Denied
    BY <1>2, <1>3, <2>5 DEF Denied, Fail, Return, localVars, routerVars
  <2>6. CASE AnswerLost
    BY <1>3, <1>4, <2>6
       DEF AnswerLost, Answers, Fail, Return, StageDelete, StageSet, StageAdd, Stage, routerVars
  <2>7. CASE RemoveRecord \/ NextRemoval \/ RemovalsDone
    BY <1>2, <2>7 DEF RemoveRecord, NextRemoval, RemovalsDone, routerVars, localVars
  <2>8. CASE AlreadyPresent \/ AdoptRecord \/ SkipRecord \/ CreateSection \/ StartApply
    BY <1>2, <2>8
       DEF AlreadyPresent, AdoptRecord, SkipRecord, CreateSection, StartApply,
           routerVars, localVars
  <2>9. CASE NothingChanged \/ Applied
    BY <1>3, <1>4, <2>9 DEF NothingChanged, Applied, Answers, Return, routerVars
  <2>10. CASE Restart
    BY <1>2, <1>3, <2>10 DEF Restart, Return, localVars, routerVars
  <2>11. QED
    BY <1>5, <1>6, <1>7, <1>8, <2>1, <2>2, <2>3, <2>4, <2>5, <2>6, <2>7, <2>8, <2>9, <2>10
       DEF SoleNext, Step

LEMMA SoleWriterInvariant ==
    ASSUME SafeAtStart
    PROVE  Spec => [](TypeInv /\ StagingInv /\ IndexInv /\ SoundInv)
<1>1. Init => TypeInv /\ StagingInv /\ IndexInv /\ SoundInv
  BY InitType, InitStaging, InitIndex, InitSound
<1>2. TypeInv /\ StagingInv /\ IndexInv /\ SoundInv /\ [Next]_vars
          => (TypeInv /\ StagingInv /\ IndexInv /\ SoundInv)'
  <2> SUFFICES ASSUME TypeInv, StagingInv, IndexInv, SoundInv, [Next]_vars
               PROVE  TypeInv' /\ StagingInv' /\ IndexInv' /\ SoundInv'
    OBVIOUS
  <2>1. TypeInv'
    BY TypeStep, SharedIsAny
  <2>2. StagingInv'
    BY <2>1, StagingStep, SharedIsAny
  <2>3. QED
    BY <2>1, <2>2, IndexStep, SoundStep, SharedIsAny
<1>3. QED
  BY <1>1, <1>2, PTL DEF Spec

\* With nobody else writing, dnsmasq starts on what is committed at any time:
\* no change set, in whatever order, however often it fails, gives an alias two
\* CNAMEs or closes a loop (openwrt.go:281-297).
THEOREM DnsmasqAlwaysStarts ==
    ASSUME SafeAtStart
    PROVE  Spec => []DnsmasqStarts
<1>1. SoundInv => DnsmasqStarts
  BY DEF SoundInv, Sound, DnsmasqStarts
<1>2. QED
  BY <1>1, SoleWriterInvariant, PTL

\* Nor does any name get both an A record and a CNAME that hides it
\* (openwrt.go:299-314).
THEOREM NothingIsEverHidden ==
    ASSUME SafeAtStart
    PROVE  Spec => []NoneHidden
<1>1. SoundInv => NoneHidden
  BY DEF SoundInv, Sound, NoneHidden
<1>2. QED
  BY <1>1, SoleWriterInvariant, PTL

-----------------------------------------------------------------------------
(* The change set, whole or not at all.  The refinement of ChangeSets      *)
(* needs to know, at every place of ApplyDNSRecords, what the loops have   *)
(* done so far and why each staged change is there.  None of it rests on   *)
(* what the router holds at the start.                                     *)

\* Contract instantiates the operators of SectionIndex anew.
LEMMA ContractOperators ==
    /\ \A r : Contract!Key(r) = Key(r)
    /\ \A r : Contract!Validate(r) <=> Validate(r)
    /\ \A held : Contract!parseSection(held) = parseSection(held)
    /\ \A config : Contract!newSectionIndex(config) = newSectionIndex(config)
    /\ \A idx, key : Contract!owned(idx, key) = owned(idx, key)
    /\ \A idx, key : Contract!unowned(idx, key) = unowned(idx, key)
    /\ \A idx, type, name : Contract!named(idx, type, name) = named(idx, type, name)
    /\ \A idx, alias, target :
           Contract!closesCNAMELoop(idx, alias, target) <=> closesCNAMELoop(idx, alias, target)
    /\ Contract!OwnershipEnabled <=> OwnershipEnabled
<1>1. \A r : Contract!Key(r) = Key(r)
  BY Zenon DEF Contract!Key, Key
<1>2. \A r : Contract!Validate(r) <=> Validate(r)
  BY Zenon DEF Contract!Validate, Validate, Contract!Writable, Writable
<1>3. \A held : Contract!parseSection(held) = parseSection(held)
  BY Zenon DEF Contract!parseSection, parseSection, Contract!Represents, Represents,
               Contract!Canonical, Canonical
<1>4. \A config : Contract!newSectionIndex(config) = newSectionIndex(config)
  BY <1>3 DEF Contract!newSectionIndex, newSectionIndex
<1>5. \A idx, key : Contract!Matching(idx, key) = Matching(idx, key)
  BY <1>1 DEF Contract!Matching, Matching
<1>6. Contract!OwnershipEnabled <=> OwnershipEnabled
  BY DEF Contract!OwnershipEnabled, OwnershipEnabled
<1>7. \A idx, key : Contract!owned(idx, key) = owned(idx, key)
  BY <1>5, <1>6 DEF Contract!owned, owned
<1>8. \A idx, key : Contract!unowned(idx, key) = unowned(idx, key)
  BY <1>5 DEF Contract!unowned, unowned
<1>9. \A idx, type, name : Contract!named(idx, type, name) = named(idx, type, name)
  BY Zenon DEF Contract!named, named
<1>10. \A idx, alias, target :
           Contract!closesCNAMELoop(idx, alias, target) <=> closesCNAMELoop(idx, alias, target)
  BY Zenon DEF Contract!closesCNAMELoop, closesCNAMELoop, Contract!ClosedUnder, ClosedUnder,
               Contract!Aliases, Aliases
<1>11. QED
  BY <1>1, <1>2, <1>3, <1>4, <1>6, <1>7, <1>8, <1>9, <1>10

LEMMA KeysOf ==
    ASSUME NEW R, NEW key
    PROVE  key \in Contract!Keys(R) <=> \E r \in R : key = Key(r)
BY ContractOperators DEF Contract!Keys

\* What a loop has left when it moves on.
LEMMA ElementsOfTail ==
    ASSUME NEW S, NEW seq \in Seq(S)
    PROVE  /\ Contract!Elements(seq) \subseteq S
           /\ Contract!Elements(<<>>) = {}
           /\ seq # <<>> =>
                 Contract!Elements(seq) = {Head(seq)} \cup Contract!Elements(Tail(seq))
<1>1. Contract!Elements(seq) \subseteq S
  BY DEF Contract!Elements
<1>2. Contract!Elements(<<>>) = {}
  BY DEF Contract!Elements
<1>3. ASSUME seq # <<>>
      PROVE  Contract!Elements(seq) = {Head(seq)} \cup Contract!Elements(Tail(seq))
  <2>1. /\ Len(seq) \in Nat \ {0} /\ DOMAIN seq = 1 .. Len(seq) /\ Head(seq) = seq[1]
        /\ DOMAIN Tail(seq) = 1 .. (Len(seq) - 1)
        /\ \A i \in 1 .. (Len(seq) - 1) : Tail(seq)[i] = seq[i + 1]
    BY <1>3
  <2>2. ASSUME NEW i \in DOMAIN seq
        PROVE  seq[i] \in {Head(seq)} \cup Contract!Elements(Tail(seq))
    <3>1. CASE i = 1
      BY <2>1, <3>1
    <3>2. CASE i # 1
      <4>1. i - 1 \in DOMAIN Tail(seq) /\ Tail(seq)[i - 1] = seq[i]
        BY <2>1, <2>2, <3>2
      <4>2. QED
        BY <4>1 DEF Contract!Elements
    <3>3. QED
      BY <3>1, <3>2
  <2>3. Head(seq) \in Contract!Elements(seq)
    BY <2>1 DEF Contract!Elements
  <2>4. ASSUME NEW i \in DOMAIN Tail(seq)
        PROVE  Tail(seq)[i] \in Contract!Elements(seq)
    <3>1. i + 1 \in DOMAIN seq /\ Tail(seq)[i] = seq[i + 1]
      BY <2>1, <2>4
    <3>2. QED
      BY <3>1 DEF Contract!Elements
  <2>5. QED
    BY <2>2, <2>3, <2>4 DEF Contract!Elements
<1>4. QED
  BY <1>1, <1>2, <1>3

\* Records of one identity have the same in their way.
LEMMA InTheWayOfKey ==
    ASSUME NEW idx, NEW q \in DNSRecord, NEW r \in DNSRecord, Key(q) = Key(r),
           Contract!InTheWay(idx, q)
    PROVE  Contract!InTheWay(idx, r)
<1>1. /\ q.Type = r.Type /\ Canon[q.Name] = Canon[r.Name]
      /\ q.Type = "CNAME" => Canon[q.Value] = Canon[r.Value]
  BY SameKey
<1>2. q.Type \in {"A", "CNAME"}
  BY DEF DNSRecord
<1>3. \A type : named(idx, type, q.Name) = named(idx, type, r.Name)
  BY <1>1 DEF named
<1>4. q.Type = "CNAME" =>
          (closesCNAMELoop(idx, q.Name, q.Value) <=> closesCNAMELoop(idx, r.Name, r.Value))
  BY <1>1 DEF closesCNAMELoop
<1>5. QED
  BY <1>1, <1>2, <1>3, <1>4, ContractOperators DEF Contract!InTheWay

\* What is in the way of a record stays there as the index grows.
LEMMA ExtensionStaysInTheWay ==
    ASSUME NEW before, NEW after, Extends(before, after), NEW r,
           Contract!InTheWay(before, r)
    PROVE  Contract!InTheWay(after, r)
BY ExtensionNamesMore, ExtensionKeepsLoops, ContractOperators DEF Contract!InTheWay

\* addRecord refuses a record for what is in its way.
LEMMA RefusedIsInTheWay ==
    ASSUME NEW r \in DNSRecord
    PROVE  Contract!InTheWay(index, r) <=> Refused(r)
BY ContractOperators DEF Contract!InTheWay, Refused, DNSRecord

\* What the change set at hand asks for.
Removals == Contract!Removals(changes)
Additions == Contract!Additions(changes)

\* The two loops, and the apply after them.
Removing == {"removes", "delete"}
Writing == {"adds", "set", "create", "apply"}

\* Where the goroutine is, what it has in hand.
LoopInv ==
    /\ pc # "idle" => result = "none"
    /\ pc = "get" => toRemove = changes.remove
    /\ pc \in {"get"} \cup Removing => toAdd = changes.add
    /\ pc \in {"idle", "get"} \cup Removing => skipped = {}
    /\ pc \in Removing => \A s \in Section : issued[s] \in {Keep, Delete}
    /\ Contract!Elements(toRemove) \subseteq Removals
    /\ Contract!Elements(toAdd) \subseteq Additions
    /\ pc = "delete" => toRemove # <<>> /\ section \in owned(index, Key(Head(toRemove)))
    /\ pc = "set" => /\ toAdd # <<>> /\ Validate(Wanted) /\ ~ Present(Wanted)
                     /\ section \in unowned(index, Key(Wanted))
    /\ pc = "create" => toAdd # <<>> /\ NeedsSection(Wanted)
    /\ pc = "apply" => toAdd = <<>> /\ changed

\* A record to remove is still to come or is gone; one to be added back comes
\* back once.
RemovalInv ==
    /\ pc \in Removing =>
           \A r \in Removals : r \in Contract!Elements(toRemove) \/ owned(index, Key(r)) = {}
    /\ pc \in Writing =>
           \A r \in Removals :
               /\ \A s, t \in owned(index, Key(r)) : s = t
               /\ Key(r) \notin Contract!Keys(Additions) => owned(index, Key(r)) = {}

\* A record to add is still to come, is there, or was skipped for good reason.
AdditionInv ==
    /\ pc \in Writing =>
           \A a \in Additions :
               \/ a \in Contract!Elements(toAdd)
               \/ Validate(a) /\ (owned(index, Key(a)) # {} \/ a \in skipped)
    /\ \A a \in skipped :
           /\ a \in Additions
           /\ owned(index, Key(a)) = {} /\ ~ Contract!CanAdopt(index, a)
           /\ Contract!InTheWay(index, a)

\* Why a change is staged to section s, and that it leaves no second section
\* for one record.
Due(s) ==
    /\ issued[s] = Delete =>
           LET was == parseSection(dhcp[s])
           IN  /\ was # Absent
               /\ Key(was) \in Contract!Keys(Removals)
               /\ OwnershipEnabled => was.Owner = OwnershipID
    /\ issued[s].op = "set" =>
           LET was == parseSection(dhcp[s])
           IN  /\ OwnershipEnabled
               /\ was # Absent /\ was.Owner = NoOwner
               /\ Key(was) \in Contract!Keys(Additions)
    /\ issued[s].op = "add" =>
           LET is == issued[s].record
           IN  /\ dhcp[s] = Absent
               /\ parseSection(is) = is
               /\ Key(is) \in Contract!Keys(Additions)
    /\ issued[s].op \in {"set", "add"} =>
           /\ index[s] # Absent
           /\ owned(index, Key(index[s])) = {s}

\* Why an apply is due at all: a section is created for a record the router
\* does not hold and nothing on it is in the way of, unless what was in the way
\* is deleted with it.
NeedInv ==
    /\ changed => issued # NothingStaged
    /\ \A s \in Section : issued[s].op = "add" =>
           \/ \E t \in Section : issued[t] = Delete
           \/ ~ Contract!InTheWay(Served, issued[s].record)

WorkInv ==
    /\ LoopInv /\ RemovalInv /\ AdditionInv
    /\ \A s \in Section : Due(s)
    /\ NeedInv

\* Nothing asked for, nothing staged.
LEMMA InitWork == Init => WorkInv
BY DEF Init, WorkInv, LoopInv, RemovalInv, AdditionInv, Due, NeedInv, Removing, Writing,
       NothingStaged, Keep, Delete, NoChanges, Contract!Elements

LEMMA ReturnKeepsWork ==
    ASSUME NEW r, Return(r)
    PROVE  WorkInv'
<1>1. \A s \in Section : issued'[s].op = "keep" /\ issued'[s] # Delete
  BY DEF Return, NothingStaged, Keep, Delete
<1>2. Contract!Elements(toRemove') = {} /\ Contract!Elements(toAdd') = {}
  BY DEF Return, Contract!Elements
<1>3. (LoopInv /\ RemovalInv /\ AdditionInv)'
  BY <1>2 DEF Return, LoopInv, RemovalInv, AdditionInv, Removing, Writing
<1>4. (NeedInv /\ \A s \in Section : Due(s))'
  BY <1>1 DEF Return, NeedInv, Due
<1>5. QED
  BY <1>3, <1>4 DEF WorkInv

\* Steps of the client and the router that ApplyDNSRecords does not see.
LEMMA QuietKeepsWork ==
    ASSUME WorkInv, UNCHANGED <<dhcp, pc, localVars, result, issued>>
    PROVE  WorkInv'
BY DEF WorkInv, LoopInv, RemovalInv, AdditionInv, Due, NeedInv, localVars, Removals,
       Additions, Wanted, Present, NeedsSection, Adoptable, Served

\* A step of a loop that makes no call: what is staged stays due.
LEMMA DecidingKeepsDue ==
    ASSUME WorkInv, UNCHANGED <<dhcp, changes, index, changed, issued>>
    PROVE  (NeedInv /\ \A s \in Section : Due(s))'
BY DEF WorkInv, Due, NeedInv, Removals, Additions, Served

LEMMA StartWork ==
    ASSUME StagingInv, WorkInv, NEW cs, ApplyDNSRecords(cs)
    PROVE  WorkInv'
<1>1. issued' = NothingStaged /\ ~ changed' /\ skipped' = {}
  BY DEF ApplyDNSRecords, StagingInv, WorkInv, NeedInv, LoopInv
<1>2. \A s \in Section : issued'[s].op = "keep" /\ issued'[s] # Delete
  BY <1>1 DEF NothingStaged, Keep, Delete
<1>3. (LoopInv /\ RemovalInv /\ AdditionInv)'
  BY <1>1 DEF ApplyDNSRecords, LoopInv, RemovalInv, AdditionInv, Removing, Writing,
              Removals, Additions, Contract!Removals, Contract!Additions
<1>4. (NeedInv /\ \A s \in Section : Due(s))'
  BY <1>1, <1>2 DEF NeedInv, Due
<1>5. QED
  BY <1>3, <1>4 DEF WorkInv

LEMMA ReadWork ==
    ASSUME StagingInv, WorkInv, Read
    PROVE  WorkInv'
<1>1. issued' = NothingStaged /\ ~ changed'
  BY DEF Read, StagingInv, WorkInv, NeedInv
<1>2. \A s \in Section : issued'[s].op = "keep" /\ issued'[s] \in {Keep, Delete} /\ issued'[s] # Delete
  BY <1>1 DEF NothingStaged, Keep, Delete
<1>3. LoopInv'
  BY <1>2 DEF Read, WorkInv, LoopInv, Removing, Removals, Additions
<1>4. RemovalInv'
  BY DEF Read, WorkInv, LoopInv, RemovalInv, Removing, Writing, Removals, Contract!Removals
<1>5. AdditionInv'
  BY DEF Read, WorkInv, LoopInv, AdditionInv, Writing
<1>6. (NeedInv /\ \A s \in Section : Due(s))'
  BY <1>1, <1>2 DEF NeedInv, Due
<1>7. QED
  BY <1>3, <1>4, <1>5, <1>6 DEF WorkInv

LEMMA RemovalsWork ==
    ASSUME TypeInv, WorkInv, RemoveRecord \/ NextRemoval \/ RemovalsDone
    PROVE  WorkInv'
<1>1. (NeedInv /\ \A s \in Section : Due(s))'
  BY DecidingKeepsDue DEF RemoveRecord, NextRemoval, RemovalsDone, routerVars, localVars
<1>2. toRemove \in Seq(DNSRecord)
  BY DEF TypeInv, TypeOK
<1>3. CASE RemoveRecord
  <2>1. (LoopInv /\ RemovalInv /\ AdditionInv)'
    BY <1>3 DEF RemoveRecord, WorkInv, LoopInv, RemovalInv, AdditionInv, Removing, Writing,
                Removals, Additions
  <2>2. QED
    BY <1>1, <2>1 DEF WorkInv
<1>4. CASE NextRemoval
  <2>1. Contract!Elements(toRemove)
            = {Head(toRemove)} \cup Contract!Elements(toRemove')
    BY <1>2, <1>4, ElementsOfTail DEF NextRemoval
  <2>2. LoopInv'
    BY <1>4, <2>1 DEF NextRemoval, WorkInv, LoopInv, Removing, Removals, Additions
  <2>3. RemovalInv'
    BY <1>4, <2>1 DEF NextRemoval, WorkInv, RemovalInv, Removing, Writing, Removals
  <2>4. AdditionInv'
    BY <1>4 DEF NextRemoval, WorkInv, LoopInv, AdditionInv, Removing, Writing
  <2>5. QED
    BY <1>1, <2>2, <2>3, <2>4 DEF WorkInv
<1>5. CASE RemovalsDone
  <2>1. Contract!Elements(toRemove) = {}
    BY <1>2, <1>5, ElementsOfTail DEF RemovalsDone
  <2>2. LoopInv'
    BY <1>5 DEF RemovalsDone, WorkInv, LoopInv, Removing, Removals, Additions, localVars
  <2>3. RemovalInv'
    BY <1>5, <2>1 DEF RemovalsDone, WorkInv, RemovalInv, Removing, Writing, Removals,
                      Additions, localVars
  <2>4. AdditionInv'
    BY <1>5 DEF RemovalsDone, WorkInv, LoopInv, AdditionInv, Removing, Writing, Additions,
                Contract!Additions, localVars
  <2>5. QED
    BY <1>1, <2>2, <2>3, <2>4 DEF WorkInv
<1>6. QED
  BY <1>3, <1>4, <1>5

\* A section is deleted that was committed under this provider's ID and holds
\* a record to remove.
LEMMA DeletedWork ==
    ASSUME TypeInv, IndexInv, WorkInv, Deleted
    PROVE  WorkInv'
<1> DEFINE r == Head(toRemove)
<1>1. /\ pc = "delete" /\ toRemove # <<>> /\ section \in owned(index, Key(r))
      /\ r \in Removals /\ index \in Config /\ issued \in Staging
  <2>1. pc = "delete" /\ toRemove # <<>> /\ section \in owned(index, Key(r))
    BY DEF Deleted, WorkInv, LoopInv
  <2>2. toRemove \in Seq(DNSRecord) /\ index \in Config /\ issued \in Staging
    BY DEF TypeInv, TypeOK
  <2>3. QED
    BY <2>1, <2>2, ElementsOfTail DEF WorkInv, LoopInv
<1>2. /\ dhcp' = dhcp /\ section \in Section
      /\ issued' = [issued EXCEPT ![section] = Delete]
      /\ index' = drop(index, section)
  BY DeletedEffect
<1>3. /\ pc' = "removes" /\ changed' /\ changes' = changes /\ toRemove' = toRemove
      /\ toAdd' = toAdd /\ skipped' = skipped /\ result' = result
  BY DEF Deleted
<1>4. \A s \in Section : issued'[s] \in {Keep, Delete}
  BY <1>1, <1>2 DEF WorkInv, LoopInv, Removing, Staging
<1>5. LoopInv'
  BY <1>1, <1>3, <1>4 DEF WorkInv, LoopInv, Removing, Removals, Additions
<1>6. RemovalInv'
  BY <1>1, <1>2, <1>3, DroppedKeys DEF WorkInv, RemovalInv, Removing, Writing, Removals
<1>7. AdditionInv'
  BY <1>1, <1>3 DEF WorkInv, LoopInv, AdditionInv, Removing, Writing
<1>8. index[section] = parseSection(dhcp[section])
  <2>1. index[section] # Absent
    BY <1>1 DEF owned, Matching
  <2>2. index[section] = parseSection(Replay(dhcp[section], issued[section]))
    BY <1>1, <1>2 DEF IndexInv, Deciding, newSectionIndex, View
  <2>3. issued[section] # Delete
    BY <2>1, <2>2 DEF Replay, Delete, parseSection
  <2>4. issued[section] = Keep
    BY <1>1, <1>2, <2>3 DEF WorkInv, LoopInv, Removing
  <2>5. QED
    BY <2>2, <2>4 DEF Replay, Keep
<1>9. ASSUME NEW s \in Section
      PROVE  Due(s)'
  <2>1. issued'[s].op \notin {"set", "add"}
    BY <1>4 DEF Keep, Delete
  <2>2. CASE s = section
    <3>1. /\ index[section] # Absent /\ Key(index[section]) = Key(r)
          /\ OwnershipEnabled => index[section].Owner = OwnershipID
      BY <1>1 DEF owned, Matching
    <3>2. QED
      BY <1>1, <1>2, <1>3, <1>8, <2>1, <2>2, <3>1, KeysOf DEF Due, Removals, OwnershipEnabled
  <2>3. CASE s # section
    <3>1. issued'[s] = issued[s]
      BY <1>1, <1>2, <2>3 DEF Staging
    <3>2. QED
      BY <1>2, <1>3, <2>1, <3>1 DEF Due, WorkInv, Removals, OwnershipEnabled
  <2>4. QED
    BY <2>2, <2>3
<1>10. NeedInv'
  <2>1. issued'[section] = Delete
    BY <1>1, <1>2 DEF Staging
  <2>2. issued' # NothingStaged
    BY <1>2, <2>1 DEF NothingStaged, Keep, Delete
  <2>3. \A s \in Section : issued'[s].op # "add"
    BY <1>4 DEF Keep, Delete
  <2>4. QED
    BY <2>2, <2>3 DEF NeedInv
<1>11. QED
  BY <1>5, <1>6, <1>7, <1>9, <1>10 DEF WorkInv

\* What addRecord decides without a call.
LEMMA DecisionWork ==
    ASSUME TypeInv, WorkInv,
           AlreadyPresent \/ AdoptRecord \/ SkipRecord \/ CreateSection \/ StartApply
    PROVE  WorkInv'
<1>1. (NeedInv /\ \A s \in Section : Due(s))'
  BY DecidingKeepsDue
     DEF AlreadyPresent, AdoptRecord, SkipRecord, CreateSection, StartApply,
         routerVars, localVars
<1>2. toAdd \in Seq(DNSRecord)
  BY DEF TypeInv, TypeOK
<1>3. pc = "adds" /\ changes' = changes /\ index' = index
  BY DEF AlreadyPresent, AdoptRecord, SkipRecord, CreateSection, StartApply, Adding, localVars
<1>4. RemovalInv'
  BY <1>3 DEF AlreadyPresent, AdoptRecord, SkipRecord, CreateSection, StartApply,
              WorkInv, RemovalInv, Removing, Writing, Removals, Additions
<1>5. CASE AlreadyPresent \/ SkipRecord
  <2>1. /\ Contract!Elements(toAdd) = {Wanted} \cup Contract!Elements(toAdd')
        /\ Wanted \in Additions /\ Wanted \in DNSRecord
    <3>1. toAdd # <<>> /\ toAdd' = Tail(toAdd)
      BY <1>5 DEF AlreadyPresent, SkipRecord, Adding
    <3>2. Contract!Elements(toAdd) = {Wanted} \cup Contract!Elements(toAdd')
      BY <1>2, <3>1, ElementsOfTail DEF Wanted
    <3>3. Contract!Elements(toAdd) \subseteq Additions
      BY DEF WorkInv, LoopInv
    <3>4. Wanted \in DNSRecord
      BY <1>2, <3>1 DEF Wanted
    <3>5. QED
      BY <3>2, <3>3, <3>4
  <2>2. LoopInv'
    BY <1>3, <1>5, <2>1 DEF AlreadyPresent, SkipRecord, WorkInv, LoopInv, Removing,
                            Removals, Additions
  <2>3. CASE AlreadyPresent
    <3>1. AdditionInv'
      BY <1>3, <2>1, <2>3 DEF AlreadyPresent, Present, WorkInv, AdditionInv, Writing, Additions
    <3>2. QED
      BY <1>1, <1>4, <2>2, <3>1 DEF WorkInv
  <2>4. CASE SkipRecord
    <3>1. /\ Validate(Wanted) /\ owned(index, Key(Wanted)) = {}
          /\ ~ Contract!CanAdopt(index, Wanted) /\ Contract!InTheWay(index, Wanted)
      BY <2>1, <2>4, RefusedIsInTheWay, ContractOperators
         DEF SkipRecord, NeedsSection, Present, Adoptable, Contract!CanAdopt
    <3>2. AdditionInv'
      BY <1>3, <2>1, <2>4, <3>1 DEF SkipRecord, WorkInv, AdditionInv, Writing, Additions
    <3>3. QED
      BY <1>1, <1>4, <2>2, <3>2 DEF WorkInv
  <2>5. QED
    BY <1>5, <2>3, <2>4
<1>6. CASE AdoptRecord \/ CreateSection \/ StartApply
  <2>1. LoopInv'
    <3>1. CASE AdoptRecord
      BY <1>3, <3>1 DEF AdoptRecord, Adding, Adoptable, WorkInv, LoopInv, Removing, Removals,
                        Additions, Wanted, Present
    <3>2. CASE CreateSection
      BY <1>3, <3>2 DEF CreateSection, Adding, WorkInv, LoopInv, Removing, Removals,
                        Additions, Wanted, NeedsSection, Present, Adoptable, localVars
    <3>3. CASE StartApply
      BY <1>3, <3>3 DEF StartApply, WorkInv, LoopInv, Removing, Removals, Additions, localVars
    <3>4. QED
      BY <1>6, <3>1, <3>2, <3>3
  <2>2. AdditionInv'
    BY <1>3, <1>6 DEF AdoptRecord, CreateSection, StartApply, WorkInv, AdditionInv, Writing,
                      Additions, localVars
  <2>3. QED
    BY <1>1, <1>4, <2>1, <2>2 DEF WorkInv
<1>7. QED
  BY <1>5, <1>6

\* A record comes to be present: what is staged before it stays due, what was
\* skipped stays skipped, and no record to remove has two sections.
LEMMA PresentKeepsWork ==
    ASSUME TypeInv, WorkInv, pc \in {"set", "create"}, toAdd # <<>>,
           Validate(Wanted), ~ Present(Wanted),
           UNCHANGED <<dhcp, changes, toRemove, skipped, result>>,
           pc' = "adds", toAdd' = Tail(toAdd), changed',
           NEW s \in Section, Extends(index, index'),
           \A key : owned(index', key) = IF Key(Wanted) = key THEN {s} ELSE owned(index, key),
           \A a \in skipped : Key(a) # Key(Wanted) /\ ~ Contract!CanAdopt(index', a)
    PROVE  /\ (LoopInv /\ RemovalInv /\ AdditionInv)'
           /\ Wanted \in Additions
           /\ \A t \in Section \ {s} :
                  issued'[t] = issued[t] /\ index'[t] = index[t] => Due(t)'
<1>1. /\ Contract!Elements(toAdd) = {Wanted} \cup Contract!Elements(toAdd')
      /\ Wanted \in Additions
  <2>1. toAdd \in Seq(DNSRecord)
    BY DEF TypeInv, TypeOK
  <2>2. QED
    BY <2>1, ElementsOfTail DEF Wanted, WorkInv, LoopInv
<1>2. LoopInv'
  BY <1>1 DEF WorkInv, LoopInv, Removing, Removals, Additions
<1>3. RemovalInv'
  <2>1. Key(Wanted) \in Contract!Keys(Additions)
    BY <1>1, KeysOf
  <2>2. QED
    BY <2>1 DEF WorkInv, RemovalInv, Removing, Writing, Removals, Additions
<1>4. AdditionInv'
  <2>1. \A a \in Additions :
            \/ a \in Contract!Elements(toAdd')
            \/ Validate(a) /\ (owned(index', Key(a)) # {} \/ a \in skipped)
    BY <1>1 DEF WorkInv, AdditionInv, Writing
  <2>2. \A a \in skipped :
            /\ a \in Additions
            /\ owned(index', Key(a)) = {} /\ Contract!InTheWay(index', a)
    BY ExtensionStaysInTheWay DEF WorkInv, AdditionInv
  <2>3. QED
    BY <2>1, <2>2 DEF AdditionInv, Additions
<1>5. ASSUME NEW t \in Section \ {s}, issued'[t] = issued[t], index'[t] = index[t]
      PROVE  Due(t)'
  <2>1. Due(t)
    BY DEF WorkInv
  <2>2. issued[t].op \in {"set", "add"} => owned(index', Key(index'[t])) = {t}
    <3> SUFFICES ASSUME issued[t].op \in {"set", "add"}
                 PROVE  owned(index', Key(index'[t])) = {t}
      OBVIOUS
    <3>1. owned(index, Key(index[t])) = {t}
      BY <2>1 DEF Due
    <3>2. Key(index[t]) # Key(Wanted)
      BY <3>1 DEF Present
    <3>3. QED
      BY <1>5, <3>1, <3>2
  <2>3. QED
    BY <1>5, <2>1, <2>2 DEF Due, Removals, Additions
<1>6. QED
  BY <1>1, <1>2, <1>3, <1>4, <1>5

LEMMA AdoptedWork ==
    ASSUME TypeInv, StagingInv, IndexInv, WorkInv, Adopted
    PROVE  WorkInv'
<1>1. /\ pc = "set" /\ toAdd # <<>> /\ Validate(Wanted) /\ ~ Present(Wanted)
      /\ section \in unowned(index, Key(Wanted))
  BY DEF Adopted, WorkInv, LoopInv
<1>2. /\ UNCHANGED <<dhcp, changes, toRemove, skipped, result>>
      /\ pc' = "adds" /\ toAdd' = Tail(toAdd) /\ changed'
  BY AdoptedEffect DEF Adopted
<1>3. /\ OwnershipEnabled /\ section \in Section
      /\ index[section] # Absent /\ index[section].Owner = NoOwner
      /\ index[section] = parseSection(dhcp[section])
      /\ issued' = [issued EXCEPT ![section] = SetOwner(OwnershipID)]
      /\ index' = markOwned(index, section, OwnershipID)
      /\ index \in Config /\ index' \in Config /\ issued \in Staging
  BY AdoptedEffect, IndexUpdates DEF TypeInv, TypeOK
<1>4. Key(index[section]) = Key(Wanted)
  BY <1>1 DEF unowned, Matching
<1>5. Extends(index, index')
  BY <1>3, MarkExtends
<1>6. /\ Key(index'[section]) = Key(Wanted)
      /\ \A key : /\ owned(index', key) = IF Key(Wanted) = key THEN {section} ELSE owned(index, key)
                  /\ unowned(index', key) = unowned(index, key) \ {section}
  BY <1>1, <1>3, <1>4, MarkedKeys DEF Present
<1>7. \A a \in skipped : Key(a) # Key(Wanted) /\ ~ Contract!CanAdopt(index', a)
  BY <1>1, <1>3, <1>6, ContractOperators DEF WorkInv, AdditionInv, Contract!CanAdopt
<1>8. /\ (LoopInv /\ RemovalInv /\ AdditionInv)'
      /\ Wanted \in Additions
      /\ \A t \in Section \ {section} :
             issued'[t] = issued[t] /\ index'[t] = index[t] => Due(t)'
  BY <1>1, <1>2, <1>3, <1>5, <1>6, <1>7, PresentKeepsWork
<1>9. /\ issued'[section] = SetOwner(OwnershipID)
      /\ \A t \in Section \ {section} : issued'[t] = issued[t] /\ index'[t] = index[t]
  BY <1>3 DEF markOwned, Config, Staging
<1>10. SetOwner(OwnershipID).op = "set" /\ SetOwner(OwnershipID) # Delete
  BY DEF SetOwner, Delete
<1>11. ASSUME NEW s \in Section, s = section
       PROVE  Due(s)'
  <2>1. Key(Wanted) \in Contract!Keys(Additions')
    BY <1>2, <1>8, KeysOf DEF Additions
  <2>2. index'[s] # Absent
    BY <1>3, <1>5, <1>11 DEF Extends
  <2>3. issued'[s].op = "set" /\ issued'[s] # Delete
    BY <1>9, <1>10, <1>11
  <2>4. /\ OwnershipEnabled
        /\ parseSection(dhcp'[s]) # Absent /\ parseSection(dhcp'[s]).Owner = NoOwner
        /\ Key(parseSection(dhcp'[s])) = Key(Wanted)
    BY <1>2, <1>3, <1>4, <1>11
  <2>5. owned(index', Key(index'[s])) = {s}
    BY <1>6, <1>11
  <2>6. QED
    BY <2>1, <2>2, <2>3, <2>4, <2>5 DEF Due, OwnershipEnabled
<1>12. NeedInv'
  <2>1. issued' # NothingStaged
    <3>1. NothingStaged[section].op = "keep"
      BY <1>3 DEF NothingStaged, Keep
    <3>2. QED
      BY <1>9, <1>10, <3>1
  <2>2. Served' = Served
    BY <1>2 DEF Served
  <2>3. \A t \in Section : issued'[t].op = "add" => t # section /\ issued'[t] = issued[t]
    BY <1>9, <1>10
  <2>4. \A t \in Section : issued[t] = Delete => issued'[t] = Delete
    <3>1. issued[section] # Delete
      BY AdoptedEffect DEF Keep, Delete
    <3>2. QED
      BY <1>9, <3>1
  <2>5. QED
    BY <2>1, <2>2, <2>3, <2>4 DEF WorkInv, NeedInv
<1>13. QED
  BY <1>3, <1>8, <1>9, <1>11, <1>12 DEF WorkInv

\* A marked section holds the record it held.
LEMMA MarkedSection ==
    ASSUME NEW held \in DNSRecord, Represents(held)
    PROVE  LET was == parseSection(held)
               is == parseSection(Replay(held, SetOwner(OwnershipID)))
           IN  /\ was # Absent /\ is # Absent /\ Key(is) = Key(was)
               /\ is.Type = was.Type /\ is.Name = was.Name /\ is.Value = was.Value
<1> DEFINE marked == [held EXCEPT !.Owner = OwnershipID]
           was == Canonical(held)
           is == [was EXCEPT !.Owner = OwnershipID]
<1>1. Replay(held, SetOwner(OwnershipID)) = marked
  BY SectionAssumption DEF Replay, SetOwner
<1>2. was \in DNSRecord /\ parseSection(held) = was
  BY CanonicalRecord, SectionAssumption DEF parseSection
<1>3. marked \in DNSRecord /\ Represents(marked) /\ Canonical(marked) = is
  BY OwnerKeepsCanonical, OwnershipAssumption
<1>4. parseSection(marked) = is
  BY <1>3, SectionAssumption DEF parseSection
<1> HIDE DEF was
<1>5. is \in DNSRecord /\ Key(is) = Key(was)
  BY <1>2, OwnerKeepsCanonical, KeyOfCanonical, OwnershipAssumption
<1>6. is.Type = was.Type /\ is.Name = was.Name /\ is.Value = was.Value
  BY <1>2 DEF DNSRecord
<1>7. QED
  BY <1>1, <1>2, <1>4, <1>5, <1>6, SectionAssumption

\* With no section deleted, all the router holds is still in the index.
LEMMA NothingDeleted ==
    ASSUME TypeInv, IndexInv, WorkInv, pc \in Deciding,
           \A t \in Section : issued[t] # Delete
    PROVE  /\ Extends(Served, index)
           /\ \A key : owned(Served, key) \subseteq owned(index, key)
<1>1. ASSUME NEW t \in Section, Served[t] # Absent
      PROVE  /\ index[t] # Absent
             /\ index[t].Type = Served[t].Type
             /\ index[t].Name = Served[t].Name /\ index[t].Value = Served[t].Value
             /\ Key(index[t]) = Key(Served[t])
             /\ \/ index[t] = Served[t]
                \/ OwnershipEnabled /\ Served[t].Owner = NoOwner
  <2>1. Served[t] = parseSection(dhcp[t]) /\ dhcp[t] \in DNSRecord \cup {Absent}
    BY DEF Served, newSectionIndex, Config, TypeInv, TypeOK
  <2>2. dhcp[t] \in DNSRecord /\ Represents(dhcp[t]) /\ Served[t] = Canonical(dhcp[t])
    BY <1>1, <2>1, ParsedSection
  <2>3. index[t] = parseSection(Replay(dhcp[t], issued[t]))
    BY DEF IndexInv, newSectionIndex, View
  <2>4. CASE issued[t] = Keep
    BY <1>1, <2>1, <2>3, <2>4 DEF Replay, Keep
  <2>5. CASE issued[t] = SetOwner(OwnershipID)
    <3>1. OwnershipEnabled /\ Served[t].Owner = NoOwner
      BY <2>1, <2>5 DEF WorkInv, Due, SetOwner
    <3>2. QED
      BY <2>1, <2>2, <2>3, <2>5, <3>1, MarkedSection
  <2>6. CASE \E r \in DNSRecord : issued[t] = AddSection(r)
    BY <2>2, <2>6, SectionAssumption DEF WorkInv, Due, AddSection
  <2>7. QED
    BY <2>4, <2>5, <2>6 DEF IndexInv, OwnChange
<1>2. ASSUME NEW key, NEW t \in owned(Served, key)
      PROVE  t \in owned(index, key)
  <2>1. /\ t \in Section /\ Served[t] # Absent /\ Key(Served[t]) = key
        /\ OwnershipEnabled => Served[t].Owner = OwnershipID
    BY <1>2 DEF owned, Matching
  <2>2. QED
    BY <1>1, <2>1 DEF owned, Matching, OwnershipEnabled
<1>3. QED
  BY <1>1, <1>2 DEF Extends

LEMMA CreatedWork ==
    ASSUME TypeInv, StagingInv, IndexInv, WorkInv, Created
    PROVE  WorkInv'
<1>1. /\ pc = "create" /\ toAdd # <<>> /\ NeedsSection(Wanted)
      /\ Validate(Wanted) /\ ~ Present(Wanted)
      /\ Wanted \in DNSRecord /\ ~ Refused(Wanted)
      /\ index \in Config /\ issued \in Staging /\ dhcp \in Config
  BY CreatedEffect DEF Created, WorkInv, LoopInv, NeedsSection, TypeInv, TypeOK
<1>2. /\ UNCHANGED <<dhcp, changes, toRemove, skipped, result>>
      /\ pc' = "adds" /\ toAdd' = Tail(toAdd) /\ changed'
  BY CreatedEffect DEF Created
<1>3. PICK s \in Section :
          /\ dhcp[s] = Absent /\ issued[s] = Keep /\ index[s] = Absent
          /\ issued' = [issued EXCEPT ![s] = AddSection(NewSection)]
          /\ index' = add(index, Wanted, s, OwnershipID)
  BY CreatedEffect
<1>4. Extends(index, index')
  BY <1>1, <1>3, AddExtends
<1>5. /\ index'[s] # Absent /\ Key(index'[s]) = Key(Wanted)
      /\ \A key : /\ owned(index', key) = IF Key(Wanted) = key THEN {s} ELSE owned(index, key)
                  /\ OwnershipEnabled => unowned(index', key) = unowned(index, key)
  BY <1>1, <1>3, AddedKeys DEF Present
<1>6. ~ Contract!InTheWay(index, Wanted)
  BY <1>1, RefusedIsInTheWay
<1>7. \A a \in skipped : Key(a) # Key(Wanted) /\ ~ Contract!CanAdopt(index', a)
  <2>1. skipped \subseteq DNSRecord
    BY DEF TypeInv, TypeOK
  <2>2. \A a \in skipped : Key(a) # Key(Wanted)
    BY <1>1, <1>6, <2>1, InTheWayOfKey DEF WorkInv, AdditionInv
  <2>3. \A a \in skipped : ~ Contract!CanAdopt(index', a)
    BY <1>5, ContractOperators DEF WorkInv, AdditionInv, Contract!CanAdopt
  <2>4. QED
    BY <2>2, <2>3
<1>8. /\ (LoopInv /\ RemovalInv /\ AdditionInv)'
      /\ Wanted \in Additions
      /\ \A t \in Section \ {s} :
             issued'[t] = issued[t] /\ index'[t] = index[t] => Due(t)'
  BY <1>1, <1>2, <1>4, <1>5, <1>7, PresentKeepsWork
<1>9. /\ issued'[s] = AddSection(NewSection)
      /\ \A t \in Section \ {s} : issued'[t] = issued[t] /\ index'[t] = index[t]
  BY <1>1, <1>3 DEF add, Config, Staging
<1>10. /\ AddSection(NewSection).op = "add" /\ AddSection(NewSection) # Delete
       /\ AddSection(NewSection).record = NewSection
  BY DEF AddSection, Delete
<1>11. /\ NewSection \in DNSRecord /\ parseSection(NewSection) = NewSection
       /\ Key(NewSection) = Key(Wanted)
  BY <1>1, NewSectionParsed, KeyOfCanonical, OwnershipAssumption DEF NewSection, Wanted
<1>12. Due(s)'
  <2>1. Key(Wanted) \in Contract!Keys(Additions')
    BY <1>2, <1>8, KeysOf DEF Additions
  <2>2. issued'[s].op = "add" /\ issued'[s] # Delete /\ issued'[s].record = NewSection
    BY <1>9, <1>10
  <2>3. dhcp'[s] = Absent
    BY <1>2, <1>3
  <2>4. owned(index', Key(index'[s])) = {s}
    BY <1>5
  <2>5. QED
    BY <1>5, <1>11, <2>1, <2>2, <2>3, <2>4 DEF Due, OwnershipEnabled
<1>13. NeedInv'
  <2>1. issued' # NothingStaged
    <3>1. NothingStaged[s].op = "keep"
      BY DEF NothingStaged, Keep
    <3>2. QED
      BY <1>9, <1>10, <3>1
  <2>2. Served' = Served
    BY <1>2 DEF Served
  <2>3. \A t \in Section : issued[t] = Delete => issued'[t] = Delete
    BY <1>3, <1>9 DEF Keep, Delete
  <2>4. CASE \E t \in Section : issued[t] = Delete
    BY <2>1, <2>3, <2>4 DEF NeedInv
  <2>5. CASE \A t \in Section : issued[t] # Delete
    <3>1. Extends(Served, index)
      BY <1>1, <2>5, NothingDeleted DEF Deciding
    <3>2. ~ Contract!InTheWay(Served, NewSection)
      BY <1>1, <1>6, <1>11, <3>1, InTheWayOfKey, ExtensionStaysInTheWay
    <3>3. \A t \in Section \ {s} :
              issued[t].op = "add" => ~ Contract!InTheWay(Served, issued[t].record)
      BY <2>5 DEF WorkInv, NeedInv
    <3>4. QED
      BY <1>9, <1>10, <2>1, <2>2, <3>2, <3>3 DEF NeedInv
  <2>6. QED
    BY <2>4, <2>5
<1>14. QED
  BY <1>8, <1>9, <1>12, <1>13 DEF WorkInv

LEMMA WorkStep ==
    ASSUME TypeInv, StagingInv, IndexInv, WorkInv, [SoleNext]_vars
    PROVE  WorkInv'
<1>1. CASE UNCHANGED vars
  BY <1>1, QuietKeepsWork DEF vars, routerVars
<1>2. CASE \/ Return("ok")
           \/ LoginFails \/ CallFails \/ AnswerLost \/ InvalidRecord \/ NothingChanged \/ Applied
  BY <1>2, ReturnKeepsWork
     DEF LoginFails, CallFails, AnswerLost, InvalidRecord, NothingChanged, Applied, Fail
<1>3. ASSUME NEW cs \in [remove : Seq(DNSRecord), add : Seq(DNSRecord)], ApplyDNSRecords(cs)
      PROVE  WorkInv'
  BY <1>3, StartWork
<1>4. CASE Login \/ Expire
  BY <1>4, QuietKeepsWork DEF Login, Expire
<1>5. CASE Denied
  <2>1. CASE staged \/ retried
    BY <1>5, <2>1, ReturnKeepsWork DEF Denied, Fail
  <2>2. CASE ~ (staged \/ retried)
    BY <1>5, <2>2, QuietKeepsWork DEF Denied, routerVars
  <2>3. QED
    BY <2>1, <2>2
<1>6. CASE Read
  BY <1>6, ReadWork
<1>7. CASE RemoveRecord \/ NextRemoval \/ RemovalsDone
  BY <1>7, RemovalsWork
<1>8. CASE Deleted
  BY <1>8, DeletedWork
<1>9. CASE AlreadyPresent \/ AdoptRecord \/ SkipRecord \/ CreateSection \/ StartApply
  BY <1>9, DecisionWork
<1>10. CASE Adopted \/ Created
  BY <1>10, AdoptedWork, CreatedWork
<1>11. CASE Restart
  <2>1. CASE pc = "idle"
    BY <1>11, <2>1, QuietKeepsWork DEF Restart, routerVars
  <2>2. CASE pc # "idle"
    BY <1>11, <2>2, ReturnKeepsWork DEF Restart
  <2>3. QED
    BY <2>1, <2>2
<1>12. QED
  BY <1>1, <1>2, <1>3, <1>4, <1>5, <1>6, <1>7, <1>8, <1>9, <1>10, <1>11
     DEF SoleNext, Step, AnyReceive

ChangeSetInv == TypeInv /\ StagingInv /\ IndexInv /\ WorkInv

LEMMA InitChangeSet == Init => ChangeSetInv
BY InitType, InitStaging, InitIndex, InitWork DEF ChangeSetInv

LEMMA ChangeSetStep ==
    ASSUME ChangeSetInv, [SoleNext]_vars
    PROVE  ChangeSetInv'
<1>1. TypeInv'
  BY TypeStep, SharedIsAny DEF ChangeSetInv
<1>2. StagingInv'
  BY <1>1, StagingStep, SharedIsAny DEF ChangeSetInv
<1>3. QED
  BY <1>1, <1>2, IndexStep, WorkStep DEF ChangeSetInv

LEMMA ChangeSetInvariant == Spec => []ChangeSetInv
<1>1. ChangeSetInv /\ [Next]_vars => ChangeSetInv'
  BY ChangeSetStep, SharedIsAny
<1>2. QED
  BY <1>1, InitChangeSet, PTL DEF Spec

-----------------------------------------------------------------------------
(* What the invariant says at the end: the change set takes effect as      *)
(* ChangeSets promises, and every other step is a stutter of it.           *)

\* A section that the change set touches, it may touch.
LEMMA TouchedIsDue ==
    ASSUME ChangeSetInv, NEW after \in Config, after = View(dhcp, issued),
           NEW s \in Section, after[s] # dhcp[s]
    PROVE  Contract!Touched(dhcp, after, changes, s)
<1>1. issued[s] \in OwnChange /\ Due(s)
  BY DEF ChangeSetInv, IndexInv, WorkInv
<1>2. after[s] = Replay(dhcp[s], issued[s])
  BY DEF View
<1>3. issued[s] # Keep
  BY <1>2 DEF Replay, Keep
<1>4. CASE issued[s] = Delete
  <2>1. after[s] = Absent
    BY <1>2, <1>4 DEF Replay, Delete
  <2>2. QED
    BY <1>1, <1>4, <2>1, ContractOperators DEF Due, Contract!Touched, Removals
<1>5. CASE issued[s] = SetOwner(OwnershipID)
  <2>1. issued[s].op = "set"
    BY <1>5 DEF SetOwner
  <2>2. /\ OwnershipEnabled
        /\ parseSection(dhcp[s]) # Absent /\ parseSection(dhcp[s]).Owner = NoOwner
        /\ Key(parseSection(dhcp[s])) \in Contract!Keys(Additions)
    BY <1>1, <2>1 DEF Due
  <2>3. dhcp[s] # Absent
    BY <2>2 DEF parseSection
  <2>4. after[s] = [dhcp[s] EXCEPT !.Owner = OwnershipID]
    BY <1>2, <1>5, <2>3 DEF Replay, SetOwner
  <2>5. QED
    BY <2>2, <2>4, ContractOperators, Zenon DEF Contract!Touched, Additions
<1>6. CASE \E r \in DNSRecord : r.Owner = OwnershipID /\ issued[s] = AddSection(r)
  <2>1. PICK r \in DNSRecord : r.Owner = OwnershipID /\ issued[s] = AddSection(r)
    BY <1>6
  <2>2. issued[s].op = "add" /\ issued[s].record = r /\ after[s] = r
    BY <1>2, <2>1 DEF AddSection, Replay
  <2>3. dhcp[s] = Absent /\ parseSection(r) = r /\ Key(r) \in Contract!Keys(Additions)
    BY <1>1, <2>2 DEF Due
  <2>4. QED
    BY <2>1, <2>2, <2>3, SectionAssumption, ContractOperators DEF Contract!Touched, Additions
<1>7. QED
  BY <1>1, <1>3, <1>4, <1>5, <1>6 DEF OwnChange

\* What is committed once the loops are through is the change set as a whole.
LEMMA WholeChangeSet ==
    ASSUME ChangeSetInv, pc \in Writing, toAdd = <<>>,
           NEW after \in Config, after = View(dhcp, issued), newSectionIndex(after) = index
    PROVE  /\ Contract!TakesEffect(dhcp, after, changes)
           /\ skipped = {r \in Additions : owned(index, Key(r)) = {}}
<1>1. /\ \A r \in Removals :
             /\ \A s, t \in owned(index, Key(r)) : s = t
             /\ Key(r) \notin Contract!Keys(Additions) => owned(index, Key(r)) = {}
      /\ \A a \in Additions : Validate(a) /\ (owned(index, Key(a)) # {} \/ a \in skipped)
      /\ \A a \in skipped :
             /\ a \in Additions
             /\ owned(index, Key(a)) = {} /\ ~ Contract!CanAdopt(index, a)
             /\ Contract!InTheWay(index, a)
  <2>1. Contract!Elements(toAdd) = {}
    BY DEF Contract!Elements
  <2>2. QED
    BY <2>1 DEF ChangeSetInv, WorkInv, RemovalInv, AdditionInv
<1>2. Contract!newSectionIndex(after) = index
  BY ContractOperators
<1>3. Contract!Removed(index, changes)
  BY <1>1, ContractOperators DEF Contract!Removed, Removals, Additions
<1>4. Contract!Added(index, changes)
  <2> SUFFICES ASSUME NEW a \in Additions
               PROVE  /\ Validate(a)
                      /\ \/ owned(index, Key(a)) # {}
                         \/ ~ Contract!CanAdopt(index, a) /\ Contract!InTheWay(index, a)
                      /\ Key(a) \in Contract!Keys(Removals) =>
                            \A s, t \in owned(index, Key(a)) : s = t
    BY ContractOperators DEF Contract!Added, Removals, Additions
  <2>1. ASSUME Key(a) \in Contract!Keys(Removals)
        PROVE  \A s, t \in owned(index, Key(a)) : s = t
    BY <1>1, <2>1, KeysOf
  <2>2. QED
    BY <1>1, <2>1
<1>5. \A s \in Section : after[s] # dhcp[s] => Contract!Touched(dhcp, after, changes, s)
  BY TouchedIsDue
<1>6. Contract!NoSecondSection(dhcp, after)
  <2> SUFFICES ASSUME NEW s \in Section, after[s] # dhcp[s], after[s] # Absent
               PROVE  \A t \in owned(index, Key(after[s])) : s = t
    BY <1>2, ContractOperators DEF Contract!NoSecondSection
  <2>1. after[s] = Replay(dhcp[s], issued[s]) /\ after[s] \in DNSRecord
    BY DEF View, Config
  <2>2. issued[s] # Keep /\ issued[s] # Delete
    BY <2>1 DEF Replay, Keep, Delete
  <2>3. issued[s].op \in {"set", "add"}
    BY <2>2 DEF ChangeSetInv, IndexInv, OwnChange, SetOwner, AddSection
  <2>4. index[s] # Absent /\ owned(index, Key(index[s])) = {s}
    BY <2>3 DEF ChangeSetInv, WorkInv, Due
  <2>5. index[s] = parseSection(after[s])
    BY DEF newSectionIndex
  <2>6. index[s] = Canonical(after[s])
    BY <2>4, <2>5 DEF parseSection
  <2>7. Key(index[s]) = Key(after[s])
    BY <2>1, <2>6, KeyOfCanonical, OwnershipAssumption
  <2>8. QED
    BY <2>4, <2>7
<1>7. QED
  BY <1>1, <1>2, <1>3, <1>4, <1>5, <1>6 DEF Contract!TakesEffect

\* The two ways a change set gets to the router: its apply, and having nothing
\* to change.
LEMMA ApplyTakesEffect ==
    ASSUME ChangeSetInv, pc = "apply", session \in alive, Commit
    PROVE  /\ Contract!TakesEffect(dhcp, dhcp', changes)
           /\ skipped = {r \in Additions : owned(Served', Key(r)) = {}}
<1>1. View(dhcp, issued) \in Config
  BY ViewType DEF ChangeSetInv, TypeInv, TypeOK
<1>2. index = newSectionIndex(View(dhcp, issued))
  BY DEF ChangeSetInv, IndexInv, Deciding
<1>3. dhcp' = View(dhcp, issued) /\ Served' = index
  BY CommitEffect DEF ChangeSetInv
<1>4. toAdd = <<>> /\ pc \in Writing
  BY DEF ChangeSetInv, WorkInv, LoopInv, Writing
<1>5. QED
  BY <1>1, <1>2, <1>3, <1>4, WholeChangeSet

LEMMA NothingTakesEffect ==
    ASSUME ChangeSetInv, pc \in Writing, toAdd = <<>>, issued = NothingStaged, dhcp' = dhcp
    PROVE  /\ Contract!TakesEffect(dhcp, dhcp', changes)
           /\ skipped = {r \in Additions : owned(Served', Key(r)) = {}}
<1>1. dhcp \in Config /\ pc \in Deciding
  BY DEF ChangeSetInv, TypeInv, TypeOK, Writing, Deciding
<1>2. dhcp = View(dhcp, issued) /\ Served = index
  BY <1>1, NothingToCommit DEF ChangeSetInv
<1>3. Served' = index
  BY <1>2 DEF Served
<1>4. newSectionIndex(dhcp) = index
  BY <1>2 DEF Served
<1>5. QED
  BY <1>1, <1>2, <1>3, <1>4, WholeChangeSet

\* The step in which a change set succeeds.
LEMMA SuccessTakesEffect ==
    ASSUME ChangeSetInv, NothingChanged \/ Applied
    PROVE  /\ Contract!TakesEffect(dhcp, dhcp', changes)
           /\ skipped = {r \in Additions : owned(Served', Key(r)) = {}}
<1>1. CASE NothingChanged
  BY <1>1, NothingTakesEffect
     DEF NothingChanged, ChangeSetInv, StagingInv, Writing, routerVars
<1>2. CASE Applied
  <2>1. pc = "apply" /\ session \in alive
    BY <1>2 DEF Applied, Answers
  <2>2. CASE Commit
    BY <2>1, <2>2, ApplyTakesEffect
  <2>3. CASE delta[session] = NothingStaged /\ UNCHANGED routerVars
    BY <2>1, <2>3, NothingTakesEffect
       DEF ChangeSetInv, StagingInv, StagedIsIssued, WorkInv, LoopInv, Writing, routerVars
  <2>4. QED
    BY <1>2, <2>2, <2>3 DEF Applied
<1>3. QED
  BY <1>1, <1>2

LEMMA SuccessIsLast ==
    ASSUME ChangeSetInv, [SoleNext]_vars, pc # "idle", result' = "ok"
    PROVE  NothingChanged \/ Applied
<1>1. result # "ok"
  BY DEF ChangeSetInv, WorkInv, LoopInv
<1>2. ~ UNCHANGED vars /\ ~ AnyReceive
  BY <1>1 DEF vars, AnyReceive, ApplyDNSRecords
<1>3. ~ (Login \/ LoginFails \/ Denied \/ CallFails \/ AnswerLost \/ Read)
  BY <1>1 DEF Login, LoginFails, Denied, CallFails, AnswerLost, Read, Fail, Return
<1>4. ~ (RemoveRecord \/ NextRemoval \/ Deleted \/ RemovalsDone)
  BY <1>1 DEF RemoveRecord, NextRemoval, Deleted, RemovalsDone
<1>5. ~ (InvalidRecord \/ AlreadyPresent \/ AdoptRecord \/ SkipRecord \/ CreateSection)
  BY <1>1 DEF InvalidRecord, AlreadyPresent, AdoptRecord, SkipRecord, CreateSection, Fail, Return
<1>6. ~ (Adopted \/ Created \/ StartApply \/ Expire \/ Restart)
  BY <1>1 DEF Adopted, Created, StartApply, Expire, Restart, Return
<1>7. QED
  BY <1>2, <1>3, <1>4, <1>5, <1>6 DEF SoleNext, Step

\* The goroutine returns without a change to the router.
LEMMA ReturnIsAbandon ==
    ASSUME pc # "idle", Return("error"), dhcp' = dhcp
    PROVE  Contract!Next
BY DEF Return, Contract!Next, Contract!Abandon, Contract!Return, NoChanges, Contract!NoChanges

LEMMA EffectIsTakeEffect ==
    ASSUME pc # "idle", Contract!TakesEffect(dhcp, dhcp', changes),
           Return("ok") \/ Return("error")
    PROVE  Contract!Next
BY DEF Return, Contract!Next, Contract!TakeEffect, Contract!Return, NoChanges,
       Contract!NoChanges

LEMMA StepMaps ==
    ASSUME ChangeSetInv, [Next]_vars
    PROVE  [Contract!Next]_(Contract!vars)
<1>1. CASE UNCHANGED <<dhcp, changes, result>> /\ (pc # "idle" <=> pc' # "idle")
  BY <1>1 DEF Contract!vars
<1>2. CASE Receive
  <2>1. CASE NothingAsked
    BY <2>1 DEF NothingAsked, Return, routerVars, Contract!Next, Contract!Empty,
                Contract!Return, NoChanges, Contract!NoChanges
  <2>2. ASSUME NEW cs \in ChangeSet, ApplyDNSRecords(cs)
        PROVE  Contract!Next
    BY <2>2 DEF ApplyDNSRecords, routerVars, Contract!Next, Contract!Submit, NoChanges,
                Contract!NoChanges
  <2>3. QED
    BY <1>2, <2>1, <2>2 DEF Receive
<1>3. CASE LoginFails \/ CallFails \/ InvalidRecord
  BY <1>3, ReturnIsAbandon
     DEF LoginFails, CallFails, InvalidRecord, Adding, Calling, Fail, routerVars
<1>4. CASE Denied
  <2>1. CASE staged \/ retried
    BY <1>4, <2>1, ReturnIsAbandon DEF Denied, Calling, Fail, routerVars
  <2>2. CASE ~ (staged \/ retried)
    BY <1>1, <1>4, <2>2 DEF Denied, localVars, routerVars
  <2>3. QED
    BY <2>1, <2>2
<1>5. CASE AnswerLost
  <2>1. pc # "idle" /\ Return("error")
    BY <1>5 DEF AnswerLost, Calling, Fail
  <2>2. CASE dhcp' = dhcp
    BY <2>1, <2>2, ReturnIsAbandon
  <2>3. CASE pc = "apply" /\ session \in alive /\ Commit
    BY <2>1, <2>3, ApplyTakesEffect, EffectIsTakeEffect
  <2>4. QED
    BY <1>5, <2>2, <2>3
       DEF AnswerLost, Answers, StageDelete, StageSet, StageAdd, Stage, routerVars
<1>6. CASE NothingChanged \/ Applied
  <2>1. pc # "idle" /\ Return("ok")
    BY <1>6 DEF NothingChanged, Applied
  <2>2. QED
    BY <1>6, <2>1, SuccessTakesEffect, EffectIsTakeEffect
<1>7. CASE Restart
  <2>1. CASE pc = "idle"
    BY <1>1, <1>7, <2>1 DEF Restart, localVars, routerVars
  <2>2. CASE pc # "idle"
    BY <1>7, <2>2, ReturnIsAbandon DEF Restart, routerVars
  <2>3. QED
    BY <2>1, <2>2
<1>8. CASE \/ UNCHANGED vars \/ Login \/ Expire \/ Read
           \/ RemoveRecord \/ NextRemoval \/ Deleted \/ RemovalsDone
           \/ AlreadyPresent \/ AdoptRecord \/ SkipRecord \/ CreateSection
           \/ Adopted \/ Created \/ StartApply
  <2>1. ASSUME Login \/ Expire \/ Read \/ UNCHANGED vars
        PROVE  UNCHANGED <<dhcp, changes, result>> /\ (pc # "idle" <=> pc' # "idle")
    BY <2>1 DEF Login, Expire, Read, vars, routerVars, localVars
  <2>2. ASSUME RemoveRecord \/ NextRemoval \/ Deleted \/ RemovalsDone
        PROVE  UNCHANGED <<dhcp, changes, result>> /\ (pc # "idle" <=> pc' # "idle")
    BY <2>2 DEF RemoveRecord, NextRemoval, Deleted, StageDelete, Stage, RemovalsDone,
                routerVars, localVars
  <2>3. ASSUME AlreadyPresent \/ AdoptRecord \/ SkipRecord \/ CreateSection \/ StartApply
        PROVE  UNCHANGED <<dhcp, changes, result>> /\ (pc # "idle" <=> pc' # "idle")
    BY <2>3 DEF AlreadyPresent, AdoptRecord, SkipRecord, CreateSection, StartApply, Adding,
                routerVars, localVars
  <2>4. ASSUME Adopted \/ Created
        PROVE  UNCHANGED <<dhcp, changes, result>> /\ (pc # "idle" <=> pc' # "idle")
    BY <2>4 DEF Adopted, StageSet, Created, StageAdd, Stage, routerVars
  <2>5. QED
    BY <1>1, <1>8, <2>1, <2>2, <2>3, <2>4
<1>9. QED
  BY <1>2, <1>3, <1>4, <1>5, <1>6, <1>7, <1>8 DEF Next, Step

\* ApplyDNSRecords implements the abstract change set: on whatever the router
\* holds, a change set takes effect in one step and as a whole or not at all,
\* and reports success only once it has (openwrt.go:165-228, README.md:133-148).
THEOREM KeepsPromise == Spec => Promise
<1>1. Init => Contract!Init
  BY DEF Init, Contract!Init, NoChanges, Contract!NoChanges
<1>2. ChangeSetInv /\ [Next]_vars => [Contract!Next]_(Contract!vars)
  BY StepMaps
<1>3. QED
  BY <1>1, <1>2, ChangeSetInvariant, PTL DEF Spec, Promise, Contract!Spec

\* What a change set that succeeds reports as skipped is what the router does
\* not hold under this provider's ID once it has (openwrt.go:202-211).
THEOREM SkippedIsMissingAlways == Spec => SkippedIsMissing
<1>1. ASSUME ChangeSetInv, [Next]_vars, pc # "idle", result' = "ok"
      PROVE  skipped = {r \in Contract!Additions(changes) : owned(Served', Key(r)) = {}}
  BY <1>1, SharedIsAny, SuccessIsLast, SuccessTakesEffect DEF Additions
<1>2. ChangeSetInv /\ [Next]_vars =>
          [pc # "idle" /\ result' = "ok" =>
              skipped = {r \in Contract!Additions(changes) : owned(Served', Key(r)) = {}}]_vars
  BY <1>1
<1>3. QED
  BY <1>2, ChangeSetInvariant, PTL DEF Spec, SkippedIsMissing

\* What the router holds when the apply is asked for is not what it was asked for.
LEMMA ApplyIsNeeded == ChangeSetInv => AppliesOnlyIfNeeded
<1>1. ASSUME ChangeSetInv PROVE AppliesOnlyIfNeeded
  <2> SUFFICES ASSUME pc = "apply", Contract!TakesEffect(dhcp, dhcp, changes),
                      Contract!Keys(Removals) \cap Contract!Keys(Additions) = {}
               PROVE  FALSE
    BY DEF AppliesOnlyIfNeeded, Removals, Additions
  <2>1. /\ \A r \in Removals :
               Key(r) \notin Contract!Keys(Additions) => owned(Served, Key(r)) = {}
        /\ \A a \in Additions :
               \/ owned(Served, Key(a)) # {}
               \/ ~ Contract!CanAdopt(Served, a) /\ Contract!InTheWay(Served, a)
    BY ContractOperators
       DEF Contract!TakesEffect, Contract!Removed, Contract!Added, Removals, Additions, Served
  <2>2. ASSUME NEW t \in Section
        PROVE  issued[t] # Delete
    <3> SUFFICES ASSUME issued[t] = Delete PROVE FALSE
      OBVIOUS
    <3>1. /\ Served[t] # Absent /\ Key(Served[t]) \in Contract!Keys(Removals)
          /\ OwnershipEnabled => Served[t].Owner = OwnershipID
      BY <1>1 DEF ChangeSetInv, WorkInv, Due, Served, newSectionIndex
    <3>2. PICK r \in Removals : Key(Served[t]) = Key(r)
      BY <3>1, KeysOf
    <3>3. t \in owned(Served, Key(r))
      BY <3>1, <3>2 DEF owned, Matching, OwnershipEnabled
    <3>4. Key(r) \notin Contract!Keys(Additions)
      BY <3>1, <3>2
    <3>5. QED
      BY <2>1, <3>3, <3>4
  <2>3. \A key : owned(Served, key) \subseteq owned(index, key)
    BY <1>1, <2>2, NothingDeleted DEF ChangeSetInv, Deciding
  <2>4. PICK s \in Section : issued[s] # Keep
    <3>1. issued # NothingStaged /\ issued \in Staging
      BY <1>1 DEF ChangeSetInv, TypeInv, TypeOK, StagingInv, WorkInv, LoopInv, NeedInv
    <3>2. QED
      BY <3>1 DEF NothingStaged, Staging
  <2>5. issued[s] \in OwnChange /\ issued[s] # Delete /\ Due(s)
    BY <1>1, <2>2 DEF ChangeSetInv, IndexInv, WorkInv
  <2>6. owned(index, Key(index[s])) = {s}
    BY <2>4, <2>5 DEF Due, OwnChange, SetOwner, AddSection
  <2>7. CASE issued[s].op = "set"
    <3>1. /\ OwnershipEnabled /\ Served[s] # Absent /\ Served[s].Owner = NoOwner
          /\ Key(Served[s]) \in Contract!Keys(Additions)
      BY <2>5, <2>7 DEF Due, Served, newSectionIndex
    <3>2. PICK a \in Additions : Key(Served[s]) = Key(a)
      BY <3>1, KeysOf
    <3>3. Contract!CanAdopt(Served, a)
      BY <3>1, <3>2, ContractOperators DEF Contract!CanAdopt, unowned, Matching
    <3>4. PICK t \in owned(Served, Key(a)) : TRUE
      BY <2>1, <3>3
    <3>5. Key(index[s]) = Key(a)
      <4>1. Extends(Served, index)
        BY <1>1, <2>2, NothingDeleted DEF ChangeSetInv, Deciding
      <4>2. Key(index[s]) = Key(Served[s])
        BY <3>1, <4>1 DEF Extends, Key
      <4>3. QED
        BY <3>2, <4>2
    <3>6. t = s
      BY <2>3, <2>6, <3>4, <3>5
    <3>7. QED
      BY <3>1, <3>4, <3>6 DEF owned, OwnershipEnabled
  <2>8. CASE issued[s].op = "add"
    <3>1. PICK is \in DNSRecord : issued[s] = AddSection(is)
      BY <2>5, <2>8 DEF OwnChange, Keep, Delete, SetOwner
    <3>2. issued[s].record = is
      BY <3>1 DEF AddSection
    <3>3. dhcp[s] = Absent /\ parseSection(is) = is /\ Key(is) \in Contract!Keys(Additions)
      BY <2>5, <2>8, <3>2 DEF Due
    <3>4. PICK a \in Additions : Key(is) = Key(a)
      BY <3>3, KeysOf
    <3>5. Additions \subseteq DNSRecord
      BY <1>1, ElementsOfTail DEF ChangeSetInv, TypeInv, TypeOK, Additions, Contract!Additions
    <3>6. ~ Contract!InTheWay(Served, is)
      BY <1>1, <2>2, <2>8, <3>2 DEF ChangeSetInv, WorkInv, NeedInv
    <3>7. ~ Contract!InTheWay(Served, a)
      BY <3>4, <3>5, <3>6, InTheWayOfKey
    <3>8. PICK t \in owned(Served, Key(a)) : TRUE
      BY <2>1, <3>7
    <3>9. index[s] = is
      <4>1. index[s] = parseSection(Replay(dhcp[s], issued[s]))
        BY <1>1 DEF ChangeSetInv, IndexInv, Deciding, newSectionIndex, View
      <4>2. QED
        BY <3>1, <3>3, <4>1 DEF Replay, AddSection
    <3>10. t = s
      BY <2>3, <2>6, <3>4, <3>8, <3>9
    <3>11. QED
      BY <3>3, <3>8, <3>10 DEF owned, Matching, Served, newSectionIndex, parseSection
  <2>9. QED
    BY <2>4, <2>5, <2>7, <2>8 DEF OwnChange, SetOwner, AddSection
<1>2. QED
  BY <1>1

\* An apply is asked for only if the router does not hold the change set
\* already, or has to be given back a record it is asked to drop
\* (openwrt.go:213-216, README.md:146).
THEOREM AppliesOnlyIfNeededAlways == Spec => []AppliesOnlyIfNeeded
BY ApplyIsNeeded, ChangeSetInvariant, PTL

\* Nothing but an apply changes what is committed.
LEMMA OnlyAppliesCommit ==
    ASSUME [SoleNext]_vars, dhcp' # dhcp
    PROVE  pc = "apply" /\ session \in alive /\ Commit
<1>1. CASE AnswerLost \/ Applied
  BY <1>1 DEF AnswerLost, Applied, Answers, StageDelete, StageSet, StageAdd, Stage, routerVars
<1>2. ~ UNCHANGED vars /\ ~ AnyReceive /\ ~ Login /\ ~ LoginFails /\ ~ Denied /\ ~ CallFails
  BY DEF vars, AnyReceive, ApplyDNSRecords, Login, LoginFails, Denied, CallFails, routerVars
<1>3. ~ Read /\ ~ RemoveRecord /\ ~ NextRemoval /\ ~ Deleted /\ ~ RemovalsDone
  BY DEF Read, RemoveRecord, NextRemoval, Deleted, StageDelete, Stage, RemovalsDone, routerVars
<1>4. /\ ~ InvalidRecord /\ ~ AlreadyPresent /\ ~ AdoptRecord /\ ~ SkipRecord
      /\ ~ CreateSection
  BY DEF InvalidRecord, AlreadyPresent, AdoptRecord, SkipRecord, CreateSection, routerVars
<1>5. ~ Adopted /\ ~ Created /\ ~ NothingChanged /\ ~ StartApply
  BY DEF Adopted, StageSet, Created, StageAdd, Stage, NothingChanged, StartApply, routerVars
<1>6. ~ Expire /\ ~ Restart
  BY DEF Expire, Restart, routerVars
<1>7. QED
  BY <1>1, <1>2, <1>3, <1>4, <1>5, <1>6 DEF SoleNext, Step

LEMMA ForeignSectionKept ==
    ASSUME ChangeSetInv, [SoleNext]_vars, OwnershipEnabled,
           NEW s \in Section, dhcp[s] # Absent, dhcp[s].Owner \notin {NoOwner, OwnershipID}
    PROVE  dhcp'[s] = dhcp[s]
<1> SUFFICES ASSUME dhcp' # dhcp PROVE dhcp'[s] = dhcp[s]
  OBVIOUS
<1>1. dhcp'[s] = Replay(dhcp[s], issued[s])
  BY OnlyAppliesCommit, CommitEffect DEF ChangeSetInv, View
<1>2. dhcp[s] \in DNSRecord /\ issued[s] \in OwnChange /\ Due(s)
  BY DEF ChangeSetInv, TypeInv, TypeOK, Config, IndexInv, WorkInv
<1>3. parseSection(dhcp[s]) # Absent => parseSection(dhcp[s]).Owner = dhcp[s].Owner
  BY <1>2, CanonicalRecord DEF parseSection
<1>4. issued[s] # Delete /\ issued[s].op # "set" /\ issued[s].op # "add"
  BY <1>2, <1>3 DEF Due
<1>5. issued[s] = Keep
  BY <1>2, <1>4 DEF OwnChange, SetOwner, AddSection
<1>6. QED
  BY <1>1, <1>5 DEF Replay, Keep

\* With nobody else writing, a change set leaves the sections of another
\* instance as they are (openwrt.go:231-232, README.md:292-293).
THEOREM ForeignSectionsAreKept == Spec => ForeignSectionsKept
<1>1. ChangeSetInv /\ [Next]_vars =>
          [pc = "apply" /\ pc' = "idle" /\ OwnershipEnabled =>
              \A s \in Section :
                  dhcp[s] # Absent /\ dhcp[s].Owner \notin {NoOwner, OwnershipID} =>
                      dhcp'[s] = dhcp[s]]_vars
  BY ForeignSectionKept, SharedIsAny
<1>2. QED
  BY <1>1, ChangeSetInvariant, PTL DEF Spec, ForeignSectionsKept

\* What addRecord looks up before it writes a CNAME is what the apply commits.
AliasInv == pc \in Deciding /\ OneCNAMEPerAlias(Served) => OneCNAMEPerAlias(index)

LEMMA AliasStep ==
    ASSUME ChangeSetInv, AliasInv, [SoleNext]_vars
    PROVE  AliasInv'
<1> SUFFICES ASSUME pc' \in Deciding, OneCNAMEPerAlias(Served')
             PROVE  OneCNAMEPerAlias(index')
  BY DEF AliasInv
<1>1. index \in Config
  BY DEF ChangeSetInv, TypeInv, TypeOK
<1>2. CASE pc \in Deciding /\ UNCHANGED <<dhcp, index>>
  BY <1>2 DEF AliasInv, Served
<1>3. CASE Read
  <2>1. index' = Served
    BY <1>3, ReadEffect DEF ChangeSetInv
  <2>2. Served' = Served
    BY <1>3 DEF Read, routerVars, Served
  <2>3. QED
    BY <2>1, <2>2
<1>4. CASE Deleted
  <2>1. pc \in Deciding /\ Served' = Served
    BY <1>4, DeletedEffect DEF Deleted, Deciding, Served, ChangeSetInv
  <2>2. QED
    BY <1>1, <1>4, <2>1, DeletedEffect, UpdatesKeepAliases DEF AliasInv, ChangeSetInv
<1>5. CASE Adopted
  <2>1. pc \in Deciding /\ Served' = Served
    BY <1>5, AdoptedEffect DEF Adopted, Deciding, Served, ChangeSetInv
  <2>2. QED
    BY <1>1, <1>5, <2>1, AdoptedEffect, UpdatesKeepAliases DEF AliasInv, ChangeSetInv
<1>6. CASE Created
  <2>1. pc \in Deciding /\ Served' = Served /\ OneCNAMEPerAlias(index)
    BY <1>6, CreatedEffect DEF Created, Deciding, Served, ChangeSetInv, AliasInv
  <2>2. /\ Wanted \in DNSRecord /\ ~ Refused(Wanted)
        /\ \E s \in Section : index' = add(index, Wanted, s, OwnershipID)
    BY <1>6, CreatedEffect DEF ChangeSetInv
  <2>3. Wanted.Type = "CNAME" => named(index, "CNAME", Wanted.Name) = {}
    BY <2>2 DEF Refused
  <2>4. QED
    BY <1>1, <2>1, <2>2, <2>3, UpdatesKeepAliases
<1>7. QED
  <2>1. CASE UNCHANGED vars
    BY <1>2, <2>1 DEF vars, routerVars, localVars
  <2>2. ~ AnyReceive /\ ~ LoginFails /\ ~ CallFails /\ ~ AnswerLost /\ ~ InvalidRecord
    BY DEF AnyReceive, ApplyDNSRecords, LoginFails, CallFails, AnswerLost, InvalidRecord,
           Fail, Return, Deciding
  <2>3. ~ NothingChanged /\ ~ Applied
    BY DEF NothingChanged, Applied, Return, Deciding
  <2>4. CASE Login \/ Denied \/ Expire \/ Restart
    BY <1>2, <2>4 DEF Login, Denied, Expire, Restart, Fail, Return, Deciding, routerVars, localVars
  <2>5. CASE RemoveRecord \/ NextRemoval \/ RemovalsDone
    BY <1>2, <2>5 DEF RemoveRecord, NextRemoval, RemovalsDone, Deciding, routerVars, localVars
  <2>6. CASE AlreadyPresent \/ AdoptRecord \/ SkipRecord \/ CreateSection \/ StartApply
    BY <1>2, <2>6 DEF AlreadyPresent, AdoptRecord, SkipRecord, CreateSection, StartApply,
                      Adding, Deciding, routerVars, localVars
  <2>7. QED
    BY <1>3, <1>4, <1>5, <1>6, <2>1, <2>2, <2>3, <2>4, <2>5, <2>6 DEF SoleNext, Step

LEMMA CommitKeepsAliases ==
    ASSUME ChangeSetInv, AliasInv, [SoleNext]_vars, OneCNAMEPerAlias(Served)
    PROVE  OneCNAMEPerAlias(Served')
<1>1. CASE dhcp' = dhcp
  BY <1>1 DEF Served
<1>2. CASE dhcp' # dhcp
  BY <1>2, OnlyAppliesCommit, CommitEffect DEF ChangeSetInv, AliasInv, Deciding
<1>3. QED
  BY <1>1, <1>2

\* With nobody else writing, a change set adds no CNAME for an alias that a
\* section holds already, on a router dnsmasq starts on or not
\* (openwrt.go:281-288, README.md:299-302).
THEOREM AliasesStaySingle == Spec => NoSecondCNAME
<1>1. Init => AliasInv
  BY DEF Init, AliasInv, Deciding
<1>2. ChangeSetInv /\ AliasInv /\ [Next]_vars => AliasInv'
  BY AliasStep, SharedIsAny
<1>3. ChangeSetInv /\ AliasInv /\ [Next]_vars =>
          [pc = "apply" /\ pc' = "idle" /\ OneCNAMEPerAlias(Served)
              => OneCNAMEPerAlias(Served')]_vars
  BY CommitKeepsAliases, SharedIsAny
<1>4. QED
  BY <1>1, <1>2, <1>3, ChangeSetInvariant, PTL DEF Spec, NoSecondCNAME
=============================================================================
