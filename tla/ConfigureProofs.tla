-------------------------- MODULE ConfigureProofs ---------------------------
(* What a save of the settings promises, for any fields, values, listings  *)
(* and foreign keys, any number of edits, and the calls of a second        *)
(* instance anywhere between those of the first.                           *)
EXTENDS Configure, FiniteSetTheorems, TLAPS

AllAssumptions ==
  /\ Optional \subseteq Fields /\ Numbers \subseteq Optional
  /\ DirFields \subseteq Fields \ Numbers
  /\ FileFields \subseteq Optional \ (Numbers \cup DirFields)
  /\ Default # Blank
  /\ None \notin Dirs \cup Files \cup {Default, Blank, Nonsense}
  /\ \A f \in Fields : None \notin Words[f]
  /\ Dirs \cap Files = {} /\ StartDir \in Dirs
  /\ \A e \in Entries : Parent[e] \in Dirs

LEMMA Assumed == AllAssumptions
BY OptionalFields, PickedFields, NoneIsNoText, TreeAssumption DEF AllAssumptions, Entries

\* The buffers are texts, and those of numbers are what can be typed there.
Texts(vals) ==
  /\ vals = [f \in Fields |-> vals[f]]
  /\ \A f \in Fields : vals[f] # None
  /\ \A f \in Numbers : vals[f] \in Words[f] \cup {Blank, Nonsense}

NumbersKnown(c) == \A f \in Numbers : c[f] \in Words[f] \cup {None}

\* Only an option may be not set.
RequiredAreSet(c) == \A f \in Fields : c[f] = None => f \in Optional

\* The table t loads, as the settings c.
LoadsAs(t, c) ==
  /\ t.text # "garbage"
  /\ \A f \in Numbers \cap DOMAIN t.keys : t.keys[f] \in Words[f]
  /\ c = [f \in Fields |-> IF f \in DOMAIN t.keys THEN t.keys[f] ELSE Unset(f)]

InSave == phase \in {"opening", "writing"}

\* The form holds texts, also while a save is under way, which has checked them.
FormHasTexts ==
  /\ Texts(values)
  /\ NumbersKnown(cfg) /\ RequiredAreSet(cfg)
  /\ InSave => Valid(values)

\* The text on its way to the file is one that loads as what the form says.
DraftIsForm == InSave => LoadsAs(draft, ToConfig(values))

\* From the truncation on there is nothing that was reported saved.
TruncatedIsUnsaved == phase = "writing" => saved = {}

\* A form gives no blanks, so none was saved.
SavedHasNoBlanks == \A c \in saved, f \in Fields : c[f] # Blank

LEMMA LoadAs == Loads <=> LoadsAs(file, Load)
BY DEF Loads, Load, LoadsAs

\* What is merged into any table loads as the settings that were merged.
LEMMA MergedLoads ==
  ASSUME NEW old, NEW vals, Texts(vals), Valid(vals)
  PROVE  LoadsAs(MergeInto(old, ToConfig(vals)), ToConfig(vals))
<1> DEFINE own == ToConfig(vals)
           said == {f \in Fields : own[f] # None}
           kept == DOMAIN old.keys \ (Optional \ said)
           keys == [f \in said \cup kept |-> IF f \in said THEN own[f] ELSE old.keys[f]]
<1>1. MergeInto(old, own) = Toml(keys, old.foreign)
  BY DEF MergeInto
<1>2. own = [f \in Fields |-> own[f]] /\ Numbers \subseteq Optional /\ Optional \subseteq Fields
  BY Assumed DEF AllAssumptions, ToConfig
<1>3. ASSUME NEW f \in Fields, f \notin said PROVE f \in Optional /\ f \notin kept
  BY <1>3, Assumed DEF AllAssumptions, ToConfig, Texts, Unset
<1>4. ASSUME NEW f \in Fields
      PROVE own[f] = IF f \in DOMAIN keys THEN keys[f] ELSE Unset(f)
  BY <1>3, <1>4 DEF Unset
<1>5. ASSUME NEW f \in Numbers \cap DOMAIN keys PROVE keys[f] \in Words[f]
  <2>1. f \in Fields /\ f \in Optional /\ f \in said
    BY <1>2, <1>3
  <2>2. keys[f] = own[f] /\ own[f] # None
    BY <2>1
  <2>3. vals[f] # Blank
    BY <2>1, <2>2 DEF ToConfig, Unset
  <2> QED
    BY <2>1, <2>2, <2>3 DEF ToConfig, Texts, Valid
<1> HIDE DEF own, keys
<1>6. Toml(keys, old.foreign).keys = keys /\ Toml(keys, old.foreign).text = "toml"
  BY DEF Toml
<1> QED
  BY <1>1, <1>2, <1>4, <1>5, <1>6 DEF LoadsAs, own

\* A form filled from settings gives them again, up to blanks.
LEMMA RoundTrip ==
  ASSUME NEW c, RequiredAreSet(c), NEW f \in Fields
  PROVE  \/ ToConfig(FromConfig(c))[f] = c[f]
         \/ c[f] = Blank /\ FromConfig(c)[f] = Blank
BY DEF RequiredAreSet, ToConfig, FromConfig, Unset

LEMMA GivenHasNoBlanks ==
  ASSUME NEW vals, NEW f \in Fields
  PROVE  ToConfig(vals)[f] # Blank
BY Assumed DEF AllAssumptions, ToConfig, Unset

\* A form filled from settings holds texts.
LEMMA FilledHasTexts ==
  ASSUME NEW c, NumbersKnown(c)
  PROVE  Texts(FromConfig(c))
BY Assumed DEF AllAssumptions, NumbersKnown, FromConfig, Texts

LEMMA DefaultsAreSet == RequiredAreSet(Defaults)
BY Assumed DEF AllAssumptions, RequiredAreSet, Defaults, Unset

LEMMA GivenAreSet ==
  ASSUME NEW vals, Texts(vals)
  PROVE  RequiredAreSet(ToConfig(vals))
BY Assumed DEF AllAssumptions, Texts, RequiredAreSet, ToConfig, Unset

LEMMA LoadedIsKnown == Loads => NumbersKnown(Load)
BY Assumed DEF AllAssumptions, Loads, Load, NumbersKnown, Unset

LEMMA DefaultsAreKnown == NumbersKnown(Defaults)
BY Assumed DEF AllAssumptions, Defaults, NumbersKnown, Unset

LEMMA GivenIsKnown ==
  ASSUME NEW vals, Texts(vals), Valid(vals)
  PROVE  NumbersKnown(ToConfig(vals))
BY Assumed DEF AllAssumptions, Texts, Valid, NumbersKnown, ToConfig, Unset

-----------------------------------------------------------------------------
(* The types.                                                              *)

Value(f) == Typed(f) \cup Known(f) \cup {Default}

AreBuffers(vals) ==
  /\ vals = [f \in Fields |-> vals[f]]
  /\ \A f \in Fields : vals[f] \in Value(f) /\ RightKind(f, vals[f])

AreSettings(c) ==
  \A f \in Fields : c[f] \in Known(f) \cup {None, Blank, Default} /\ RightKind(f, c[f])

IsTable(t) ==
  /\ t = [text |-> t.text, keys |-> t.keys, foreign |-> t.foreign]
  /\ t.text \in {"missing", "toml", "garbage"}
  /\ t.foreign \subseteq Foreign
  /\ \A f \in Fields \cap DOMAIN t.keys : t.keys[f] \in Value(f) /\ RightKind(f, t.keys[f])

IsBrowser(b) ==
  /\ b \in [open : {TRUE}, field : DirFields \cup FileFields, cwd : Dirs,
            shown : SUBSET Nat, row : Nat \ {0}]
  /\ b.shown \in Shown(b.cwd)

InRange(b) == b.row <= RowCount(b) \/ (b.row = 1 /\ RowCount(b) = 0)

FormTypes ==
  /\ phase \in {"off", "home", "form", "opening", "writing"}
  /\ AreSettings(cfg) /\ AreBuffers(values)
  /\ InSave => Valid(values)
  /\ dirty \in BOOLEAN

BrowserTypes == browser = NoBrowser \/ (IsBrowser(browser) /\ InRange(browser))

FileTypes ==
  /\ IsTable(file) /\ IsTable(draft)
  /\ other = [at |-> other.at, draft |-> other.draft]
  /\ other.at \in {"idle", "opening", "writing"} /\ IsTable(other.draft)
  /\ placed \subseteq Foreign
  /\ crossed \in BOOLEAN /\ hurt \in BOOLEAN
  /\ edits \in 0 .. MaxEdits

TypeInv == FormTypes /\ BrowserTypes /\ FileTypes

\* A table of these keys.
LEMMA TomlIsTable ==
  ASSUME NEW keys, NEW fs \in SUBSET Foreign,
         \A f \in Fields \cap DOMAIN keys : keys[f] \in Value(f) /\ RightKind(f, keys[f])
  PROVE  IsTable(Toml(keys, fs))
BY DEF IsTable, Toml

LEMMA SpecialTables == IsTable(Empty) /\ IsTable(Missing) /\ IsTable(Garbage)
<1>1. DOMAIN NoKeys = {}
  BY DEF NoKeys
<1>2. IsTable(Empty)
  BY <1>1, TomlIsTable DEF Empty
<1> QED
  <2>1. Missing = [text |-> "missing", keys |-> NoKeys, foreign |-> {}]
    BY DEF Missing, Empty, Toml
  <2>2. Garbage = [text |-> "garbage", keys |-> NoKeys, foreign |-> {}]
    BY DEF Garbage, Empty, Toml
  <2> QED
    BY <1>1, <1>2, <2>1, <2>2 DEF IsTable

LEMMA UnsetIsRight ==
  ASSUME NEW f \in Fields
  PROVE  Unset(f) \in {None, Default} /\ RightKind(f, Unset(f))
BY Assumed, TypedAssumption DEF AllAssumptions, RightKind, Unset

LEMMA BlankIsRight == \A f \in Fields : RightKind(f, Blank) /\ RightKind(f, Nonsense)
BY TypedAssumption

LEMMA TypedIsRight ==
  ASSUME NEW f \in Fields, NEW v \in Typed(f)
  PROVE  v \in Value(f) /\ RightKind(f, v)
BY TypedAssumption DEF Value, Typed

LEMMA DefaultsAreSettings == AreSettings(Defaults)
BY UnsetIsRight DEF AreSettings, Defaults

\* Settings fill a form, a valid form gives settings, and so does a file that loads.
LEMMA FilledAreBuffers ==
  ASSUME NEW c, AreSettings(c)
  PROVE  AreBuffers(FromConfig(c))
<1>1. ASSUME NEW f \in Fields
      PROVE  FromConfig(c)[f] \in Value(f) /\ RightKind(f, FromConfig(c)[f])
  BY BlankIsRight DEF AreSettings, FromConfig, Value, Typed
<1> QED
  BY <1>1 DEF AreBuffers, FromConfig

LEMMA GivenAreSettings ==
  ASSUME NEW vals, AreBuffers(vals), Valid(vals)
  PROVE  AreSettings(ToConfig(vals))
<1>1. ASSUME NEW f \in Fields
      PROVE  /\ ToConfig(vals)[f] \in Known(f) \cup {None, Blank, Default}
             /\ RightKind(f, ToConfig(vals)[f])
  <2>1. vals[f] \in Known(f) \cup {Blank, Default}
    BY DEF AreBuffers, Value, Typed, Valid, Known
  <2> QED
    BY <2>1, UnsetIsRight DEF AreBuffers, ToConfig
<1> QED
  BY <1>1 DEF AreSettings

LEMMA LoadedAreSettings ==
  ASSUME IsTable(file), Loads
  PROVE  AreSettings(Load)
<1>1. ASSUME NEW f \in Fields
      PROVE  Load[f] \in Known(f) \cup {None, Blank, Default} /\ RightKind(f, Load[f])
  <2>1. CASE f \in DOMAIN file.keys
    <3>1. file.keys[f] \in Known(f) \cup {Blank, Default}
      BY <2>1 DEF IsTable, Value, Typed, Loads, Known
    <3> QED
      BY <2>1, <3>1 DEF IsTable, Load
  <2>2. CASE f \notin DOMAIN file.keys
    BY <2>2, UnsetIsRight DEF Load
  <2> QED
    BY <2>1, <2>2
<1> QED
  BY <1>1 DEF AreSettings

LEMMA LoadedAreSet ==
  ASSUME FileTypes
  PROVE  RequiredAreSet(Load)
<1>1. \A f \in Fields : None \notin Value(f)
  BY Assumed DEF AllAssumptions, Value, Typed, Known, Entries
<1>2. \A f \in Fields \cap DOMAIN file.keys : file.keys[f] # None
  BY <1>1 DEF FileTypes, IsTable
<1>3. \A f \in Fields : Load[f] = IF f \in DOMAIN file.keys THEN file.keys[f] ELSE Unset(f)
  BY DEF Load
<1>4. \A f \in Fields : Unset(f) = None => f \in Optional
  BY Assumed DEF AllAssumptions, Unset
<1> QED
  BY <1>2, <1>3, <1>4 DEF RequiredAreSet

LEMMA MergedIsTable ==
  ASSUME NEW old, IsTable(old), NEW own, AreSettings(own)
  PROVE  IsTable(MergeInto(old, own))
<1> DEFINE said == {f \in Fields : own[f] # None}
           kept == DOMAIN old.keys \ (Optional \ said)
           keys == [f \in said \cup kept |-> IF f \in said THEN own[f] ELSE old.keys[f]]
<1>1. MergeInto(old, own) = Toml(keys, old.foreign)
  BY DEF MergeInto
<1>2. ASSUME NEW f \in Fields \cap DOMAIN keys
      PROVE  keys[f] \in Value(f) /\ RightKind(f, keys[f])
  <2>1. CASE f \in said
    <3>1. own[f] \in Known(f) \cup {Blank, Default} /\ RightKind(f, own[f])
      BY <2>1 DEF AreSettings
    <3> QED
      BY <2>1, <3>1 DEF Value, Typed
  <2>2. CASE f \notin said
    BY <2>2 DEF IsTable
  <2> QED
    BY <2>1, <2>2
<1>3. old.foreign \in SUBSET Foreign
  BY DEF IsTable
<1> HIDE DEF keys
<1> QED
  BY <1>1, <1>2, <1>3, TomlIsTable

LEMMA OthersAreSettings == \A own \in OtherSettings : AreSettings(own)
BY TypedAssumption DEF AreSettings

\* What may be in the file after a write that was crossed or cut short.
LEMMA LandedIsTable ==
  ASSUME IsTable(file), NEW t, IsTable(t), NEW x \in Lands(t)
  PROVE  IsTable(x)
BY SpecialTables DEF Lands

LEMMA PartIsTable ==
  ASSUME NEW t, IsTable(t), NEW x \in Part(t)
  PROVE  IsTable(x)
<1>1. IsTable(Toml(t.keys, {}))
  BY TomlIsTable DEF IsTable
<1> QED
  BY <1>1, SpecialTables DEF Part

-----------------------------------------------------------------------------
(* The browser.                                                            *)

LEMMA RowsAreCounted ==
  ASSUME NEW b, IsBrowser(b)
  PROVE  RowCount(b) \in Nat
<1>1. Listing[b.cwd] \in Seq(Dirs \cup Files)
  BY TreeAssumption DEF IsBrowser
<1>2. DOMAIN Listing[b.cwd] = 1 .. Len(Listing[b.cwd]) /\ Len(Listing[b.cwd]) \in Int
  BY <1>1
<1>3. IsFiniteSet(DOMAIN Listing[b.cwd])
  BY <1>2, FS_Interval
<1>4. IsFiniteSet(b.shown)
  BY <1>3, FS_Subset DEF IsBrowser, Shown
<1>5. Cardinality(b.shown) \in Nat
  BY <1>4, FS_CardinalityType
<1> QED
  BY <1>5 DEF RowCount, Above

LEMMA ShownArePlaces == \A d \in Dirs : Shown(d) \subseteq SUBSET Nat
<1> SUFFICES ASSUME NEW d \in Dirs PROVE Shown(d) \subseteq SUBSET Nat
  OBVIOUS
<1>1. Listing[d] \in Seq(Dirs \cup Files)
  BY TreeAssumption
<1>2. DOMAIN Listing[d] \subseteq Nat
  BY <1>1
<1> QED
  BY <1>2 DEF Shown

LEMMA RowMoved ==
  ASSUME NEW b, IsBrowser(b), NEW r \in Nat \ {0}
  PROVE  IsBrowser([b EXCEPT !.row = r])
BY DEF IsBrowser

\* Drawing leaves a browser with its row in range.
LEMMA BrowseKeeps ==
  ASSUME NEW b, IsBrowser(b), Browse(b)
  PROVE  BrowserTypes'
<1> DEFINE n == IF b.row <= RowCount(b) THEN b.row
                ELSE IF RowCount(b) = 0 THEN 1 ELSE RowCount(b)
<1>1. RowCount(b) \in Nat /\ b.row \in Nat \ {0}
  BY RowsAreCounted DEF IsBrowser
<1>2. n \in Nat \ {0} /\ (n <= RowCount(b) \/ (n = 1 /\ RowCount(b) = 0))
  BY <1>1
<1> HIDE DEF n
<1>3. browser' = [b EXCEPT !.row = n]
  BY DEF Browse, Drawn, n
<1>4. IsBrowser(browser')
  BY <1>2, <1>3, RowMoved
<1>5. browser'.row = n /\ browser'.shown = b.shown /\ browser'.field = b.field
  BY <1>3 DEF IsBrowser
<1>7. RowCount(browser') = RowCount(b)
  BY <1>5 DEF RowCount, Above
<1>8. InRange(browser')
  BY <1>2, <1>5, <1>7 DEF InRange
<1> QED
  BY <1>4, <1>8 DEF BrowserTypes, IsBrowser, InRange

LEMMA OpenIsBrowser == BrowserTypes /\ browser.open => IsBrowser(browser)
BY DEF BrowserTypes, NoBrowser

\* What the keys make of a browser is one.
LEMMA ChangedIsBrowser ==
  ASSUME NEW b, IsBrowser(b), NEW d \in Dirs, NEW r \in Nat \ {0}
  PROVE  /\ IsBrowser([b EXCEPT !.row = r])
         /\ \A s \in Shown(b.cwd) : IsBrowser([b EXCEPT !.shown = s, !.row = r])
         /\ \A s \in Shown(d) : IsBrowser(Enter(b, d, s))
<1>1. ASSUME NEW s \in Shown(b.cwd) PROVE IsBrowser([b EXCEPT !.shown = s, !.row = r])
  BY <1>1, ShownArePlaces DEF IsBrowser
<1>2. ASSUME NEW s \in Shown(d) PROVE IsBrowser(Enter(b, d, s))
  <2>1. s \in SUBSET Nat /\ 1 \in Nat \ {0}
    BY <1>2, ShownArePlaces
  <2>2. Enter(b, d, s) = [b EXCEPT !.cwd = d, !.shown = s, !.row = 1]
    BY DEF Enter
  <2> DEFINE c == [b EXCEPT !.cwd = d, !.shown = s, !.row = 1]
  <2>3. c \in [open : {TRUE}, field : DirFields \cup FileFields, cwd : Dirs,
               shown : SUBSET Nat, row : Nat \ {0}]
    BY <2>1 DEF IsBrowser
  <2>4. c.cwd = d /\ c.shown = s
    BY DEF IsBrowser
  <2> QED
    BY <1>2, <2>2, <2>3, <2>4 DEF IsBrowser
<1> QED
  BY RowMoved, <1>1, <1>2

\* A key that gives a buffer a value of the right kind.
LEMMA PutKeepsTypes ==
  ASSUME AreBuffers(values), NEW f \in Fields, NEW v \in Value(f), RightKind(f, v), Put(f, v)
  PROVE  AreBuffers(values') /\ dirty' \in BOOLEAN
<1>1. values' = [values EXCEPT ![f] = v] /\ dirty' = TRUE
  BY DEF Put
<1>2. values' = [g \in Fields |-> IF g = f THEN v ELSE values[g]]
  BY <1>1 DEF AreBuffers
<1> QED
  BY <1>1, <1>2 DEF AreBuffers

LEMMA PickedIsRight ==
  ASSUME NEW f \in DirFields \cup FileFields, NEW e,
         e \in Entries, f \in DirFields => e \in Dirs
  PROVE  f \in Fields /\ e \in Value(f) /\ RightKind(f, e)
BY Assumed DEF AllAssumptions, Value, Known, Entries, RightKind

\* What a key of the form or the browser leaves alone.
LEMMA StayKeepsTypes ==
  ASSUME TypeInv, phase = "form", Stay, AreBuffers(values'), dirty' \in BOOLEAN,
         BrowserTypes'
  PROVE  TypeInv'
<1>1. FormTypes'
  BY DEF TypeInv, FormTypes, Stay, InSave
<1>2. FileTypes'
  BY DEF TypeInv, FileTypes, Stay, outside, history
<1> QED
  BY <1>1, <1>2 DEF TypeInv

LEMMA FormKeyKeepsTypes ==
  ASSUME TypeInv, NEW f \in Fields, Edit(f) \/ Clear(f) \/ PickYazi(f) \/ OpenBrowser(f)
  PROVE  TypeInv'
<1>0. AreBuffers(values) /\ dirty \in BOOLEAN /\ BrowserTypes /\ phase = "form"
  BY DEF TypeInv, FormTypes, Edit, Clear, PickYazi, OpenBrowser, AtForm
<1>1. ASSUME NEW v \in Value(f), RightKind(f, v), Put(f, v), UNCHANGED browser, Stay
      PROVE  TypeInv'
  <2>1. BrowserTypes'
    BY <1>0, <1>1 DEF BrowserTypes, IsBrowser, InRange, RowCount, Above
  <2> QED
    BY <1>0, <1>1, <2>1, PutKeepsTypes, StayKeepsTypes
<1>2. CASE Edit(f)
  BY <1>1, <1>2, TypedIsRight DEF Edit
<1>3. CASE Clear(f)
  <2>1. Blank \in Value(f) /\ RightKind(f, Blank)
    BY BlankIsRight DEF Value, Typed
  <2> QED
    BY <1>1, <1>3, <2>1 DEF Clear
<1>4. CASE PickYazi(f)
  <2>1. PICK e \in Entries : Put(f, Picked(f, e))
    BY <1>4 DEF PickYazi
  <2>2. Picked(f, e) \in Entries /\ (f \in DirFields => Picked(f, e) \in Dirs)
    BY <1>4, Assumed DEF AllAssumptions, PickYazi, Picked, Entries
  <2>3. Picked(f, e) \in Value(f) /\ RightKind(f, Picked(f, e))
    BY <1>4, <2>2, PickedIsRight DEF PickYazi
  <2> QED
    BY <1>1, <1>4, <2>1, <2>3 DEF PickYazi
<1>5. CASE OpenBrowser(f)
  <2> DEFINE at(s) == [open |-> TRUE, field |-> f, cwd |-> StartFor(values[f]),
                       shown |-> s, row |-> 1]
  <2>1. PICK s \in Shown(StartFor(values[f])) :
          /\ browser' = at(s)
          /\ f \in DirFields \cup FileFields /\ UNCHANGED <<values, dirty>> /\ Stay
    BY <1>5 DEF OpenBrowser
  <2> DEFINE b == at(s)
  <2>2. StartFor(values[f]) \in Dirs
    BY Assumed DEF AllAssumptions, StartFor, Entries
  <2>3. IsBrowser(b)
    BY <2>1, <2>2, ShownArePlaces DEF IsBrowser
  <2>4. RowCount(b) \in Nat /\ b.row = 1
    BY <2>3, RowsAreCounted
  <2>5. InRange(b)
    BY <2>4 DEF InRange
  <2>6. BrowserTypes'
    BY <2>1, <2>3, <2>5 DEF BrowserTypes
  <2> QED
    BY <1>0, <2>1, <2>6, StayKeepsTypes
<1> QED
  BY <1>2, <1>3, <1>4, <1>5

LEMMA BrowserKeyKeepsTypes ==
  ASSUME TypeInv, BrowserKey
  PROVE  TypeInv'
<1>0. AreBuffers(values) /\ dirty \in BOOLEAN /\ BrowserTypes
  BY DEF TypeInv, FormTypes
<1>00. 1 \in Nat \ {0} /\ StartDir \in Dirs
  BY Assumed DEF AllAssumptions
<1>1. ASSUME NEW b, IsBrowser(b), Browse(b) PROVE TypeInv'
  <2>1. phase = "form" /\ Stay /\ UNCHANGED <<values, dirty>> /\ BrowserTypes'
    BY <1>1, BrowseKeeps DEF Browse
  <2> QED
    BY <1>0, <2>1, StayKeepsTypes
<1>2. ASSUME NEW e, phase = "form", browser.open, ClosesWith(e),
             e \in Entries, browser.field \in DirFields => e \in Dirs
      PROVE  TypeInv'
  <2>1. browser.field \in DirFields \cup FileFields
    BY <1>0, <1>2, OpenIsBrowser DEF IsBrowser
  <2>2. browser.field \in Fields /\ e \in Value(browser.field) /\ RightKind(browser.field, e)
    BY <1>2, <2>1, PickedIsRight
  <2>3. AreBuffers(values') /\ dirty' \in BOOLEAN
    BY <1>0, <1>2, <2>2, PutKeepsTypes DEF ClosesWith
  <2> QED
    BY <1>2, <2>3, StayKeepsTypes DEF ClosesWith, BrowserTypes
<1>3. ASSUME browser.open PROVE IsBrowser(browser)
  BY <1>0, <1>3, OpenIsBrowser
<1>4. CASE Up
  <2>0. IsBrowser(browser) /\ browser.row > 1
    BY <1>3, <1>4 DEF Up
  <2>1. browser.row - 1 \in Nat \ {0}
    BY <2>0 DEF IsBrowser
  <2>2. IsBrowser([browser EXCEPT !.row = browser.row - 1])
    BY <2>0, <2>1, ChangedIsBrowser, <1>00
  <2> QED
    BY <1>1, <1>4, <2>2 DEF Up
<1>5. CASE Down
  <2>0. IsBrowser(browser)
    BY <1>3, <1>5 DEF Down
  <2>1. browser.row + 1 \in Nat \ {0}
    BY <2>0 DEF IsBrowser
  <2>2. IsBrowser([browser EXCEPT !.row = browser.row + 1])
    BY <2>0, <2>1, ChangedIsBrowser, <1>00
  <2> QED
    BY <1>1, <1>5, <2>2 DEF Down
<1>6. CASE Refilter
  <2>1. PICK s \in Shown(browser.cwd), row \in {1, 1 + Above(browser)} :
          browser.open /\ Browse([browser EXCEPT !.shown = s, !.row = row])
    BY <1>6 DEF Refilter
  <2>2. row \in Nat \ {0}
    BY DEF Above
  <2>3. IsBrowser([browser EXCEPT !.shown = s, !.row = row])
    BY <1>3, <1>00, <2>1, <2>2, ChangedIsBrowser
  <2> QED
    BY <1>1, <2>1, <2>3
<1>7. ASSUME browser.open, NEW d \in Dirs, NEW s \in Shown(d), Browse(Enter(browser, d, s))
      PROVE  TypeInv'
  BY <1>1, <1>3, <1>7, <1>00, ChangedIsBrowser
<1>8. CASE Ascend
  <2>1. Parent[browser.cwd] \in Dirs
    BY <1>3, <1>8, Assumed DEF AllAssumptions, Ascend, IsBrowser, Entries
  <2> QED
    BY <1>7, <1>8, <2>1 DEF Ascend
<1>9. CASE browser.open /\ Choose(browser.row)
  <2>0. IsBrowser(browser)
    BY <1>3, <1>9
  <2>1. CASE browser.field \in DirFields /\ ClosesWith(browser.cwd)
    BY <1>2, <1>9, <2>0, <2>1 DEF IsBrowser, Choose, Entries
  <2>2. ASSUME NEW e \in Dirs, NEW s \in Shown(e), Browse(Enter(browser, e, s)) PROVE TypeInv'
    BY <1>7, <1>9, <2>2
  <2>3. ASSUME NEW e \in Files, browser.field \in FileFields, ClosesWith(e) PROVE TypeInv'
    <3>1. browser.field \notin DirFields
      BY <2>3, Assumed DEF AllAssumptions
    <3> QED
      BY <1>2, <1>9, <2>3, <3>1 DEF Choose, Entries
  <2> QED
    BY <1>9, <2>1, <2>2, <2>3 DEF Choose
<1>10. CASE CloseBrowser
  BY <1>0, <1>10, StayKeepsTypes DEF CloseBrowser, BrowserTypes
<1> QED
  BY <1>4, <1>5, <1>6, <1>8, <1>9, <1>10 DEF BrowserKey

LEMMA InitTypes == Init => TypeInv
<1> SUFFICES ASSUME Init PROVE TypeInv
  OBVIOUS
<1>1. FormTypes
  BY DefaultsAreSettings, FilledAreBuffers DEF Init, FormTypes, InSave
<1>2. IsTable(Toml(NoKeys, placed)) /\ placed \subseteq Foreign
  <2>1. placed \in SUBSET Foreign /\ DOMAIN NoKeys = {}
    BY DEF Init, NoKeys
  <2> QED
    BY <2>1, TomlIsTable
<1>3. IsTable(file) /\ IsTable(draft) /\ IsTable(other.draft)
  BY <1>2, SpecialTables DEF Init
<1>4. edits \in 0 .. MaxEdits
  BY Bounds DEF Init
<1> QED
  BY <1>1, <1>2, <1>3, <1>4 DEF Init, TypeInv, BrowserTypes, FileTypes

LEMMA TypeStep == TypeInv /\ [Next]_vars => TypeInv'
<1> SUFFICES ASSUME TypeInv, [Next]_vars PROVE TypeInv'
  OBVIOUS
<1>0. FormTypes /\ BrowserTypes /\ FileTypes /\ AreBuffers(values) /\ AreSettings(cfg)
  BY DEF TypeInv, FormTypes, InSave
<1>1. ASSUME NEW f \in Fields, Edit(f) \/ Clear(f) \/ PickYazi(f) \/ OpenBrowser(f)
      PROVE  TypeInv'
  BY <1>1, FormKeyKeepsTypes
<1>2. CASE BrowserKey
  BY <1>2, BrowserKeyKeepsTypes
<1>3. ASSUME UNCHANGED browser PROVE BrowserTypes'
  BY <1>0, <1>3 DEF BrowserTypes, IsBrowser, InRange, RowCount, Above
<1>4. ASSUME UNCHANGED <<draft, file, crossed, outside, history>> PROVE FileTypes'
  BY <1>0, <1>4 DEF FileTypes, outside, history
<1>5. ASSUME UNCHANGED screen PROVE FormTypes' /\ BrowserTypes'
  BY <1>0, <1>3, <1>5 DEF FormTypes, InSave, screen
<1>6. CASE Start
  BY <1>0, <1>3, <1>4, <1>6, LoadedAreSettings, FilledAreBuffers
     DEF Start, TypeInv, FormTypes, InSave, FileTypes
<1>7. CASE OpenForm \/ Discard
  BY <1>0, <1>3, <1>4, <1>7, FilledAreBuffers DEF OpenForm, Discard, TypeInv, FormTypes, InSave
<1>8. CASE BeginSave
  <2>1. IsTable(draft')
    BY <1>0, <1>8, GivenAreSettings, MergedIsTable DEF BeginSave, FileTypes
  <2>2. hurt' \in BOOLEAN
    BY <1>8 DEF BeginSave
  <2>3. FileTypes'
    BY <1>0, <1>8, <2>1, <2>2 DEF BeginSave, FileTypes, outside
  <2> QED
    BY <1>0, <1>3, <1>8, <2>3 DEF BeginSave, AtForm, TypeInv, FormTypes, InSave
<1>9. CASE OpenForWrite
  <2>1. crossed' \in BOOLEAN
    BY <1>0, <1>9 DEF OpenForWrite, FileTypes
  <2>2. IsTable(file') /\ IsTable(draft')
    BY <1>0, <1>9, SpecialTables DEF OpenForWrite, FileTypes
  <2>3. FileTypes'
    BY <1>0, <1>9, <2>1, <2>2 DEF OpenForWrite, FileTypes, outside
  <2> QED
    BY <1>0, <1>3, <1>9, <2>3 DEF OpenForWrite, TypeInv, FormTypes, InSave
<1>10. CASE FinishWrite
  <2>1. IsTable(file') /\ IsTable(draft')
    BY <1>0, <1>10, SpecialTables, LandedIsTable DEF FinishWrite, FileTypes
  <2>2. hurt' \in BOOLEAN /\ crossed' \in BOOLEAN
    BY <1>10 DEF FinishWrite
  <2>3. FileTypes'
    BY <1>0, <1>10, <2>1, <2>2 DEF FinishWrite, FileTypes, outside
  <2> QED
    BY <1>0, <1>3, <1>10, <2>3, GivenAreSettings DEF FinishWrite, TypeInv, FormTypes, InSave
<1>11. CASE WriteFails
  <2>1. IsTable(file') /\ IsTable(draft')
    BY <1>0, <1>11, SpecialTables, PartIsTable DEF WriteFails, FileTypes
  <2>2. hurt' \in BOOLEAN /\ crossed' \in BOOLEAN
    BY <1>11 DEF WriteFails
  <2>3. FileTypes'
    BY <1>0, <1>11, <2>1, <2>2 DEF WriteFails, FileTypes, outside
  <2> QED
    BY <1>0, <1>3, <1>11, <2>3 DEF WriteFails, TypeInv, FormTypes, InSave
<1>12. CASE Stop
  <2>1. hurt' \in BOOLEAN /\ crossed' \in BOOLEAN
    BY <1>12 DEF Stop
  <2>2. FileTypes'
    BY <1>0, <1>12, <2>1, SpecialTables DEF Stop, FileTypes, outside
  <2> QED
    BY <1>12, <2>2, DefaultsAreSettings, FilledAreBuffers
       DEF Stop, TypeInv, FormTypes, InSave, BrowserTypes
<1>13. CASE HandEdit
  <2>1. PICK f \in Fields, fs \in SUBSET Foreign :
          /\ \/ \E v \in Typed(f) :
                  file' = Toml([g \in DOMAIN file.keys \cup {f} |->
                                  IF g = f THEN v ELSE file.keys[g]], fs)
             \/ file' = Toml(Restrict(file.keys, DOMAIN file.keys \ {f}), fs)
          /\ placed' = fs
    BY <1>13 DEF HandEdit
  <2>2. \A g \in Fields \cap DOMAIN file.keys :
          file.keys[g] \in Value(g) /\ RightKind(g, file.keys[g])
    BY <1>0 DEF FileTypes, IsTable
  <2>3. IsTable(file')
    <3> DEFINE put(v) == [g \in DOMAIN file.keys \cup {f} |->
                            IF g = f THEN v ELSE file.keys[g]]
    <3>1. ASSUME NEW v \in Typed(f), file' = Toml(put(v), fs) PROVE IsTable(file')
      <4>1. \A g \in Fields \cap DOMAIN put(v) :
              put(v)[g] \in Value(g) /\ RightKind(g, put(v)[g])
        BY <2>2, TypedIsRight
      <4> QED
        BY <3>1, <4>1, TomlIsTable
    <3>2. CASE file' = Toml(Restrict(file.keys, DOMAIN file.keys \ {f}), fs)
      <4> DEFINE keys == Restrict(file.keys, DOMAIN file.keys \ {f})
      <4>1. /\ DOMAIN keys \subseteq DOMAIN file.keys
            /\ \A g \in DOMAIN keys : keys[g] = file.keys[g]
        BY DEF Restrict
      <4> HIDE DEF keys
      <4>2. \A g \in Fields \cap DOMAIN keys : keys[g] \in Value(g) /\ RightKind(g, keys[g])
        BY <2>2, <4>1
      <4> QED
        BY <3>2, <4>2, TomlIsTable DEF keys
    <3> QED
      BY <2>1, <3>1, <3>2
  <2>4. hurt' \in BOOLEAN /\ crossed' \in BOOLEAN
    BY <1>13 DEF HandEdit, Busy
  <2>5. edits' \in 0 .. MaxEdits
    BY <1>0, <1>13, Bounds DEF HandEdit, FileTypes
  <2>6. FileTypes'
    BY <1>0, <1>13, <2>1, <2>3, <2>4, <2>5 DEF HandEdit, FileTypes, screen
  <2> QED
    BY <1>5, <1>13, <2>6 DEF HandEdit, TypeInv
<1>14. CASE OtherReads
  <2>1. PICK own \in OtherSettings :
          other' = [at |-> "opening", draft |-> MergeInto(file, own)]
    BY <1>14 DEF OtherReads
  <2>2. IsTable(MergeInto(file, own))
    BY <1>0, <2>1, OthersAreSettings, MergedIsTable DEF FileTypes
  <2>3. hurt' \in BOOLEAN
    BY <1>14 DEF OtherReads
  <2>4. FileTypes'
    BY <1>0, <1>14, <2>1, <2>2, <2>3 DEF OtherReads, FileTypes, screen
  <2> QED
    BY <1>5, <1>14, <2>4 DEF OtherReads, TypeInv
<1>15. CASE OtherOpens \/ OtherDies
  <2>1. hurt' \in BOOLEAN /\ crossed' \in BOOLEAN
    BY <1>0, <1>15 DEF OtherOpens, OtherDies, FileTypes
  <2>2. FileTypes'
    BY <1>0, <1>15, <2>1, SpecialTables DEF OtherOpens, OtherDies, FileTypes, screen
  <2> QED
    BY <1>5, <1>15, <2>2 DEF OtherOpens, OtherDies, TypeInv
<1>16. CASE OtherWrites
  <2>1. IsTable(file')
    BY <1>0, <1>16, LandedIsTable DEF OtherWrites, FileTypes
  <2>2. hurt' \in BOOLEAN /\ crossed' \in BOOLEAN
    BY <1>16 DEF OtherWrites
  <2>3. FileTypes'
    BY <1>0, <1>16, <2>1, <2>2, SpecialTables DEF OtherWrites, FileTypes, screen
  <2> QED
    BY <1>5, <1>16, <2>3 DEF OtherWrites, TypeInv
<1>17. CASE UNCHANGED vars
  BY <1>4, <1>5, <1>17 DEF vars, screen, TypeInv
<1> QED
  BY <1>1, <1>2, <1>6, <1>7, <1>8, <1>9, <1>10, <1>11, <1>12, <1>13, <1>14, <1>15,
     <1>16, <1>17 DEF Next, FormKey

-----------------------------------------------------------------------------
(* The keys.                                                               *)

\* A key on the form or in the browser: it leaves the texts texts, the settings
\* and the file what they are, and says so when the buffers have changed.
FormStep ==
  /\ phase = "form" /\ Stay
  /\ \/ UNCHANGED <<values, dirty>>
     \/ Texts(values') /\ dirty'

LEMMA PutIsFormStep ==
  ASSUME phase = "form", Stay, Texts(values), NEW f \in Fields, NEW v, v # None,
         f \in Numbers => v \in Words[f] \cup {Blank, Nonsense}, Put(f, v)
  PROVE  FormStep
<1>1. Texts(values')
  BY DEF Put, Texts
<1> QED
  BY <1>1 DEF FormStep, Put

LEMMA EditIsFormStep ==
  ASSUME Texts(values), NEW f \in Fields, Edit(f) \/ Clear(f) \/ PickYazi(f) \/ OpenBrowser(f)
  PROVE  FormStep
<1> USE Assumed DEF AllAssumptions, AtForm
<1>1. CASE Edit(f)
  BY <1>1, PutIsFormStep DEF Edit, Typed
<1>2. CASE Clear(f)
  BY <1>2, PutIsFormStep DEF Clear
<1>3. CASE PickYazi(f)
  <2>1. PICK e \in Entries : Put(f, Picked(f, e))
    BY <1>3 DEF PickYazi
  <2>2. Picked(f, e) # None /\ f \notin Numbers
    BY <1>3 DEF PickYazi, Picked, Entries
  <2> QED
    BY <1>3, <2>1, <2>2, PutIsFormStep DEF PickYazi
<1>4. CASE OpenBrowser(f)
  BY <1>4 DEF OpenBrowser, FormStep
<1> QED
  BY <1>1, <1>2, <1>3, <1>4

LEMMA BrowserIsFormStep ==
  ASSUME Texts(values), BrowserTypes, BrowserKey
  PROVE  FormStep
<1>1. ASSUME NEW b, Browse(b) PROVE FormStep
  BY <1>1 DEF Browse, FormStep
<1>2. ASSUME NEW e \in Entries, browser.open, phase = "form", ClosesWith(e) PROVE FormStep
  <2>1. e # None /\ browser.field \in Fields \ Numbers
    BY <1>2, OpenIsBrowser, Assumed DEF AllAssumptions, Entries, IsBrowser
  <2> QED
    BY <1>2, <2>1, PutIsFormStep DEF ClosesWith
<1>3. CASE Up \/ Down \/ Refilter \/ Ascend
  BY <1>1, <1>3 DEF Up, Down, Refilter, Ascend
<1>4. CASE browser.open /\ Choose(browser.row)
  <2>1. browser.cwd \in Dirs /\ phase = "form"
    BY <1>4, OpenIsBrowser DEF IsBrowser, Choose
  <2> QED
    BY <1>1, <1>2, <1>4, <2>1 DEF Choose, Entries
<1>5. CASE CloseBrowser
  BY <1>5 DEF CloseBrowser, FormStep
<1> QED
  BY <1>3, <1>4, <1>5 DEF BrowserKey

-----------------------------------------------------------------------------
(* The settings and the form.                                              *)

SaveInv ==
  /\ FormHasTexts
  /\ DraftIsForm
  /\ TruncatedIsUnsaved
  /\ SavedHasNoBlanks
  /\ SavedIsReloaded
  /\ FormIsHonest

IInv == TypeInv /\ SaveInv

LEMMA InitIInv == Init => IInv
<1> SUFFICES ASSUME Init PROVE IInv
  OBVIOUS
<1>1. FormHasTexts
  BY DefaultsAreKnown, DefaultsAreSet, FilledHasTexts DEF Init, FormHasTexts, InSave
<1> QED
  BY <1>1, InitTypes DEF Init, IInv, SaveInv, DraftIsForm, InSave,
              TruncatedIsUnsaved, SavedHasNoBlanks, SavedIsReloaded, FormIsHonest

LEMMA FormStepKeeps == SaveInv /\ FormStep => SaveInv'
BY DEF SaveInv, FormStep, Stay, FormHasTexts, InSave, DraftIsForm, TruncatedIsUnsaved,
       SavedHasNoBlanks, SavedIsReloaded, FormIsHonest, Texts, NumbersKnown, RequiredAreSet, Valid, LoadsAs, ToConfig,
       FromConfig, Unset, Loads, Load, history, outside

LEMMA SaveStep == IInv /\ [Next]_vars => SaveInv'
<1> SUFFICES ASSUME IInv, [Next]_vars PROVE SaveInv'
  OBVIOUS
<1> USE DEF IInv, SaveInv, FormHasTexts, InSave, DraftIsForm, TruncatedIsUnsaved,
            SavedHasNoBlanks, SavedIsReloaded, FormIsHonest
<1>1. ASSUME NEW f \in Fields, Edit(f) \/ Clear(f) \/ PickYazi(f) \/ OpenBrowser(f)
      PROVE  SaveInv'
  BY <1>1, EditIsFormStep, FormStepKeeps
<1>2. CASE BrowserKey
  BY <1>2, BrowserIsFormStep, FormStepKeeps DEF TypeInv
<1>3. CASE Start
  BY <1>3, LoadedIsKnown, LoadedAreSet, FilledHasTexts
     DEF Start, history, Loads, Load, TypeInv
<1>4. CASE OpenForm
  <2>1. FormIsHonest'
    BY <1>4, RoundTrip DEF OpenForm, history
  <2> QED
    BY <1>4, <2>1, FilledHasTexts DEF OpenForm, history, Loads, Load
<1>5. CASE Discard
  BY <1>5, FilledHasTexts DEF Discard, history, Loads, Load, AtForm
<1>6. CASE BeginSave
  BY <1>6, MergedLoads DEF BeginSave, Loads, Load, AtForm
<1>7. CASE OpenForWrite
  BY <1>7 DEF OpenForWrite, Loads, Load
<1>8. CASE FinishWrite
  <2>1. Texts(values)' /\ NumbersKnown(cfg)'
    BY <1>8, GivenIsKnown DEF FinishWrite
  <2>4. RequiredAreSet(cfg)' /\ SavedHasNoBlanks'
    BY <1>8, GivenAreSet, GivenHasNoBlanks DEF FinishWrite
  <2>2. SavedIsReloaded'
    BY <1>8 DEF FinishWrite, Lands, Loads, Load, LoadsAs
  <2>3. FormIsHonest'
    BY <1>8 DEF FinishWrite
  <2> QED
    BY <1>8, <2>1, <2>2, <2>3, <2>4 DEF FinishWrite
<1>9. CASE WriteFails
  BY <1>9 DEF WriteFails, Loads, Load
<1>10. CASE Stop
  BY <1>10, DefaultsAreKnown, DefaultsAreSet, FilledHasTexts DEF Stop, Loads, Load
<1>11. CASE HandEdit \/ OtherOpens \/ OtherWrites
  BY <1>11 DEF HandEdit, OtherOpens, OtherWrites, screen
<1>12. CASE OtherReads \/ OtherDies
  BY <1>12 DEF OtherReads, OtherDies, screen, Loads, Load
<1>13. CASE UNCHANGED vars
  BY <1>13 DEF vars, screen, history, Loads, Load
<1> QED
  BY <1>1, <1>2, <1>3, <1>4, <1>5, <1>6, <1>7, <1>8, <1>9, <1>10, <1>11, <1>12, <1>13
     DEF Next, FormKey

LEMMA Inductive == Spec => []IInv
<1>1. IInv /\ [Next]_vars => IInv'
  BY TypeStep, SaveStep DEF IInv
<1> QED
  BY InitIInv, <1>1, PTL DEF Spec

-----------------------------------------------------------------------------
(* The foreign keys.                                                       *)

\* Whoever is in a save has a draft with the foreign keys the file should have.
DraftsCarry ==
  ~hurt =>
    /\ InSave => draft.foreign = placed
    /\ other.at \in {"opening", "writing"} => other.draft.foreign = placed

OtherIsRecord == other = [at |-> other.at, draft |-> other.draft]

ForeignInv == OtherIsRecord /\ DraftsCarry /\ ForeignKeysSurvive

LEMMA MergeKeepsForeign ==
  ASSUME NEW old, NEW own PROVE MergeInto(old, own).foreign = old.foreign
BY DEF MergeInto, Toml

LEMMA InitForeign == Init => ForeignInv
BY DEF Init, ForeignInv, OtherIsRecord, DraftsCarry, InSave, ForeignKeysSurvive,
       Missing, Empty, Toml

LEMMA ForeignStep == ForeignInv /\ [Next]_vars => ForeignInv'
<1> SUFFICES ASSUME ForeignInv, [Next]_vars PROVE ForeignInv'
  OBVIOUS
<1> USE MergeKeepsForeign
    DEF ForeignInv, OtherIsRecord, DraftsCarry, InSave, ForeignKeysSurvive,
        screen, outside, history
<1>1. ASSUME NEW f \in Fields, Edit(f) \/ Clear(f) \/ PickYazi(f) \/ OpenBrowser(f)
      PROVE  ForeignInv'
  BY <1>1 DEF Edit, Clear, PickYazi, OpenBrowser, Stay
<1>2. CASE BrowserKey
  BY <1>2 DEF BrowserKey, Up, Down, Refilter, Ascend, Choose,
              ClosesWith, CloseBrowser, Browse, Stay
<1>3. CASE Start \/ OpenForm \/ Discard
  BY <1>3 DEF Start, OpenForm, Discard, AtForm
<1>4. CASE BeginSave
  BY <1>4 DEF BeginSave, AtForm
<1>5. CASE OpenForWrite
  BY <1>5 DEF OpenForWrite
<1>6. CASE FinishWrite
  BY <1>6 DEF FinishWrite, Lands
<1>7. CASE WriteFails \/ Stop
  BY <1>7 DEF WriteFails, Stop
<1>8. CASE HandEdit
  BY <1>8 DEF HandEdit, Busy, Toml
<1>9. CASE OtherReads
  <2>1. PICK own \in OtherSettings :
          other' = [at |-> "opening", draft |-> MergeInto(file, own)]
    BY <1>9 DEF OtherReads
  <2>2. ~hurt' => ~hurt /\ phase # "writing" /\ other.at # "writing"
    BY <1>9 DEF OtherReads
  <2>3. other'.at = "opening" /\ other'.draft.foreign = file.foreign
    BY <2>1
  <2> QED
    BY <1>9, <2>1, <2>2, <2>3 DEF OtherReads
<1>10. CASE OtherOpens
  BY <1>10 DEF OtherOpens
<1>11. CASE OtherWrites
  BY <1>11 DEF OtherWrites, Lands
<1>12. CASE OtherDies
  BY <1>12 DEF OtherDies
<1>13. CASE UNCHANGED vars
  BY <1>13 DEF vars
<1> QED
  BY <1>1, <1>2, <1>3, <1>4, <1>5, <1>6, <1>7, <1>8, <1>9, <1>10, <1>11, <1>12, <1>13
     DEF Next, FormKey

-----------------------------------------------------------------------------

\* The settings and buffers keep their types, a field for a directory never gets a
\* file, whatever yazi and the browser pick (apply_picked), and the browser's row is one that is drawn (browser_key and
\* draw_browser), for any tree, filter and order of keys.
THEOREM ConfigureTypes == Spec => []TypeOK
<1>1. TypeInv => TypeOK
  <2> SUFFICES ASSUME TypeInv PROVE TypeOK
    OBVIOUS
  <2>1. FormTypes /\ BrowserTypes /\ FileTypes
    BY DEF TypeInv
  <2>2. ASSUME NEW f \in Fields
        PROVE  /\ cfg[f] \in Known(f) \cup {None, Blank, Default}
               /\ values[f] \in Typed(f) \cup Known(f) \cup {Default}
               /\ RightKind(f, cfg[f]) /\ RightKind(f, values[f])
    BY <2>1 DEF FormTypes, AreSettings, AreBuffers, Value
  <2>3. ASSUME browser.open
        PROVE  /\ browser.field \in DirFields \cup FileFields
               /\ browser.cwd \in Dirs
               /\ browser.row >= 1
               /\ browser.row <= RowCount(browser)
                    \/ (browser.row = 1 /\ RowCount(browser) = 0)
    <3>1. IsBrowser(browser) /\ InRange(browser)
      BY <2>1, <2>3, OpenIsBrowser DEF BrowserTypes, NoBrowser
    <3> QED
      BY <3>1 DEF IsBrowser, InRange
  <2> QED
    BY <2>1, <2>2, <2>3 DEF TypeOK, FormTypes, FileTypes, IsTable
<1> QED
  BY InitTypes, TypeStep, <1>1, PTL DEF Spec

\* What was reported saved is what the next start reads, and what is in force,
\* until somebody else writes the file.
THEOREM SavedIsRead == Spec => []SavedIsReloaded
<1>1. IInv => SavedIsReloaded
  BY DEF IInv, SaveInv
<1> QED
  BY Inductive, <1>1, PTL

\* A form without "unsaved changes" would save what is in force (from_config and
\* to_config), except for blanks that were put into the file by hand.
THEOREM FormTellsSettings == Spec => []FormIsHonest
<1>1. IInv => FormIsHonest
  BY DEF IInv, SaveInv
<1> QED
  BY Inductive, <1>1, PTL

\* Keys that are not this program's outlive its saves, unless a save was cut short
\* or crossed by another write.
THEOREM ForeignKeysAreKept == Spec => []ForeignKeysSurvive
<1>1. ForeignInv => ForeignKeysSurvive
  BY DEF ForeignInv
<1> QED
  BY InitForeign, ForeignStep, <1>1, PTL DEF Spec

=============================================================================
