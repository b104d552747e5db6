----------------------------- MODULE Configure -----------------------------
(***************************************************************************)
(* The settings of the TUI: the form that edits them, its file browser, and *)
(* the file they live in (config.rs, ui/configure.rs).                     *)
(*                                                                         *)
(* A save reads the file, merges its own keys into it, truncates it and    *)
(* writes it again. Between these calls other writers of the same file may *)
(* act: the operator's editor, and a second instance of this program,      *)
(* modelled by the calls of its saves only.                                *)
(***************************************************************************)
EXTENDS Naturals, FiniteSets, SequencesExt

CONSTANTS
  Fields,       \* the keys of the file that are this program's
  Optional,     \* those that may be cleared
  Numbers,      \* the optional ones that hold a number
  DirFields,    \* those a directory is picked for
  FileFields,   \* those a file is picked for
  Foreign,      \* the keys that are not this program's
  Words,        \* Words[f]: what is typed for f, other than nothing and nonsense
  Dirs, Files,  \* what there is to pick
  Listing,      \* Listing[d]: what is in directory d, in order, directories first
  Parent,       \* Parent[e]: the directory e is in; a root is in itself
  StartDir,     \* the directory of the settings file
  OtherSettings,  \* what a second instance may have in its form
  MaxEdits,     \* bound: edits of the file by hand
  Default, None, Blank, Nonsense   \* special values, see below

\* Default is the value a required field has when the file does not name it, None
\* an option that is not set, Blank an empty text, Nonsense one that is no number.
ASSUME OptionalFields == Optional \subseteq Fields /\ Numbers \subseteq Optional
ASSUME PickedFields ==
  /\ DirFields \subseteq Fields \ Numbers
  /\ FileFields \subseteq Optional \ (Numbers \cup DirFields)
ASSUME NoneIsNoText ==
  /\ Default # Blank
  /\ None \notin Dirs \cup Files \cup {Default, Blank, Nonsense}
  /\ \A f \in Fields : None \notin Words[f]
ASSUME TreeAssumption ==
  /\ Dirs \cap Files = {} /\ StartDir \in Dirs
  /\ \A e \in Dirs \cup Files : Parent[e] \in Dirs
  /\ \A d \in Dirs : Listing[d] \in Seq(Dirs \cup Files)
ASSUME Bounds == MaxEdits \in Nat

VARIABLES
  phase,    \* "off", "home", "form", "opening", "writing": the last two, in a save
  cfg,      \* App::cfg: the settings in force
  values,   \* the buffers of the form
  dirty,    \* whether the title of the form says "unsaved changes"
  browser,  \* the browser modal, or NoBrowser
  draft,    \* the text the running save is going to write
  file,     \* the settings file
  other,    \* the save the second instance is in
  crossed,  \* somebody else changed the file while it was open for writing
  placed,   \* history: the foreign keys put into the file by hand
  hurt,     \* history: a save was cut short, or another came between its calls
  saved,    \* history: the settings last reported saved, until somebody else writes
  edits     \* the number of edits so far

screen == <<phase, cfg, values, dirty, browser, draft>>
outside == <<other, edits>>
history == <<placed, hurt, saved>>
vars == <<screen, file, crossed, outside, history>>

Entries == Dirs \cup Files
Known(f) == IF f \in Numbers THEN Words[f] ELSE Words[f] \cup Entries
Typed(f) == Words[f] \cup {Blank} \cup (IF f \in Numbers THEN {Nonsense} ELSE {})

\* Operators who type a path type a directory's where one is asked for, and so
\* does the one at the second instance. A field for a file may get a directory.
RightKind(f, v) == f \in DirFields => v \notin Files
ASSUME TypedAssumption ==
  /\ \A f \in Fields, v \in {Blank, Nonsense} : RightKind(f, v)
  /\ \A f \in Fields : \A w \in Words[f] : RightKind(f, w)
  /\ Default \notin Files
  /\ \A own \in OtherSettings, f \in Fields :
       own[f] \in Known(f) \cup {None, Default} /\ RightKind(f, own[f])

-----------------------------------------------------------------------------
(* The file.                                                               *)

NoKeys == [f \in {} |-> Blank]
Toml(keys, foreign) == [text |-> "toml", keys |-> keys, foreign |-> foreign]
Empty == Toml(NoKeys, {})
Missing == [Empty EXCEPT !.text = "missing"]
Garbage == [Empty EXCEPT !.text = "garbage"]

\* What a field is when the file does not have it, or its buffer is empty.
Unset(f) == IF f \in Optional THEN None ELSE Default

\* Config::load. A number that is none, or is empty, is an error.
Loads ==
  /\ file.text # "garbage"
  /\ \A f \in Numbers \cap DOMAIN file.keys : file.keys[f] \in Words[f]
Load == [f \in Fields |-> IF f \in DOMAIN file.keys THEN file.keys[f] ELSE Unset(f)]
Defaults == [f \in Fields |-> Unset(f)]

\* ConfigureState::from_config and to_config. A blank that was put in by hand is
\* a setting when it is loaded, and none when it is saved from the form.
FromConfig(c) == [f \in Fields |-> IF c[f] = None THEN Blank ELSE c[f]]
Valid(vals) == \A f \in Numbers : vals[f] # Nonsense
ToConfig(vals) == [f \in Fields |-> IF vals[f] = Blank THEN Unset(f) ELSE vals[f]]

\* Mutant: an option that is cleared keeps its old key.
MergeInto_KeepsCleared(old, own) ==
  LET said == {f \in Fields : own[f] # None}
  IN  Toml([f \in said \cup DOMAIN old.keys |->
              IF f \in said THEN own[f] ELSE old.keys[f]], old.foreign)

\* Mutant: the file is written from the settings alone.
MergeInto_Overwrites(old, own) ==
  Toml([f \in {g \in Fields : own[g] # None} |-> own[f]], {})

\* Config::save, the text: the table that is there, without the options that are
\* cleared, with the rest of the settings put in.
MergeInto(old, own) ==
  LET said == {f \in Fields : own[f] # None}
      kept == DOMAIN old.keys \ (Optional \ said)
  IN  Toml([f \in said \cup kept |-> IF f \in said THEN own[f] ELSE old.keys[f]],
           old.foreign)

\* What is in the file when only a part of the text has been written: nothing,
\* the lines in front of a foreign table, or a line that is cut.
Part(text) == {Empty, Toml(text.keys, {}), Garbage}

-----------------------------------------------------------------------------
(* The browser.                                                            *)

NoBrowser == [open |-> FALSE]

\* reread and visible: the places of a listing that are shown, which are any, since
\* any text can be the filter and the dotted names are hidden or not.
Shown(d) == SUBSET DOMAIN Listing[d]

\* On top is the row that stands for the directory itself, when a directory is to
\* be picked.
Above(b) == IF b.field \in DirFields THEN 1 ELSE 0
RowOf(b, i) == Above(b) + Cardinality({j \in b.shown : j <= i})
RowCount(b) == Above(b) + Cardinality(b.shown)

\* Drawing comes before the next key and brings the selection back in range. A
\* list of no rows has the selection 1.
Drawn(b) == [b EXCEPT !.row = IF @ <= RowCount(b) THEN @
                              ELSE IF RowCount(b) = 0 THEN 1 ELSE RowCount(b)]

\* browser_start: where the value of the field leads, or the settings' directory.
StartFor(val) ==
  IF val \in Dirs THEN val ELSE IF val \in Files THEN Parent[val] ELSE StartDir

Enter(b, d, s) == [b EXCEPT !.cwd = d, !.shown = s, !.row = 1]

-----------------------------------------------------------------------------
(* The program.                                                            *)

Init ==
  /\ phase = "off"
  /\ cfg = Defaults
  /\ values = FromConfig(cfg)
  /\ dirty = FALSE
  /\ browser = NoBrowser
  /\ draft = Empty
  /\ placed \in SUBSET Foreign
  /\ file = IF placed = {} THEN Missing ELSE Toml(NoKeys, placed)
  /\ other = [at |-> "idle", draft |-> Empty]
  /\ crossed = FALSE
  /\ hurt = FALSE
  /\ saved = {}
  /\ edits = 0

\* main: a file that cannot be parsed ends the program before its first screen.
Start ==
  /\ phase = "off"
  /\ Loads
  /\ phase' = "home"
  /\ cfg' = Load
  /\ values' = FromConfig(Load)
  /\ UNCHANGED <<dirty, browser, draft, file, crossed, outside, history>>

\* HOME, first entry.
OpenForm ==
  /\ phase = "home"
  /\ phase' = "form"
  /\ values' = FromConfig(cfg)
  /\ dirty' = FALSE
  /\ UNCHANGED <<cfg, browser, draft, file, crossed, outside, history>>

AtForm == phase = "form" /\ ~browser.open
Stay == UNCHANGED <<phase, cfg, draft, file, crossed, outside, history>>

\* A key on the form that gives field f the value v.
Put(f, v) ==
  /\ values' = [values EXCEPT ![f] = v]
  /\ dirty' = TRUE

\* Enter on a text, e on any field: the buffer is taken over by Enter, trimmed,
\* and checked by the save only.
Edit(f) ==
  /\ AtForm
  /\ \E v \in Typed(f) : Put(f, v)
  /\ UNCHANGED browser
  /\ Stay

Clear(f) ==
  /\ AtForm
  /\ f \in Optional
  /\ Put(f, Blank)
  /\ UNCHANGED browser
  /\ Stay

\* Mutant: a directory field takes what was picked as it is.
Picked_AsChosen(f, e) == e

\* apply_picked: a file picked for a directory stands for the directory it is in, a
\* directory picked for a file is taken as it is.
Picked(f, e) == IF f \in DirFields /\ e \in Files THEN Parent[e] ELSE e

\* yazi_pick, run_yazi_picker: yazi lets anything be picked.
PickYazi(f) ==
  /\ AtForm
  /\ f \in DirFields \cup FileFields
  /\ \E e \in Entries : Put(f, Picked(f, e))
  /\ UNCHANGED browser
  /\ Stay

OpenBrowser(f) ==
  /\ AtForm
  /\ f \in DirFields \cup FileFields
  /\ LET d == StartFor(values[f])
     IN  \E s \in Shown(d) :
           browser' = [open |-> TRUE, field |-> f, cwd |-> d, shown |-> s, row |-> 1]
  /\ UNCHANGED <<values, dirty>>
  /\ Stay

\* A key in the browser that leaves it open.
Browse(b) ==
  /\ phase = "form" /\ browser.open
  /\ browser' = Drawn(b)
  /\ UNCHANGED <<values, dirty>>
  /\ Stay

Up == browser.open /\ browser.row > 1 /\ Browse([browser EXCEPT !.row = @ - 1])
Down == browser.open /\ Browse([browser EXCEPT !.row = @ + 1])

\* A character typed into the filter or taken off it, and the dot, which shows the
\* hidden names or hides them: all put the selection on a row of their own.
Refilter ==
  /\ browser.open
  /\ \E s \in Shown(browser.cwd), r \in {1, 1 + Above(browser)} :
       Browse([browser EXCEPT !.shown = s, !.row = r])

\* Backspace when the filter is empty.
Ascend ==
  /\ browser.open
  /\ Parent[browser.cwd] # browser.cwd
  /\ \E s \in Shown(Parent[browser.cwd]) : Browse(Enter(browser, Parent[browser.cwd], s))

ClosesWith(e) ==
  /\ Put(browser.field, e)
  /\ browser' = NoBrowser
  /\ Stay

\* Enter: the row of the directory itself is picked, another directory is
\* entered, a file is picked if a file is asked for.
Choose(row) ==
  /\ phase = "form" /\ browser.open
  /\ \/ browser.field \in DirFields /\ row = 1 /\ ClosesWith(browser.cwd)
     \/ \E i \in browser.shown :
          /\ row = RowOf(browser, i)
          /\ LET e == Listing[browser.cwd][i]
             IN  \/ e \in Dirs /\ \E s \in Shown(e) : Browse(Enter(browser, e, s))
                 \/ browser.field \in FileFields /\ e \in Files /\ ClosesWith(e)

CloseBrowser ==
  /\ phase = "form" /\ browser.open
  /\ browser' = NoBrowser
  /\ UNCHANGED <<values, dirty>>
  /\ Stay

Discard ==
  /\ AtForm
  /\ phase' = "home"
  /\ values' = FromConfig(cfg)
  /\ dirty' = FALSE
  /\ UNCHANGED <<cfg, browser, draft, file, crossed, outside, history>>

-----------------------------------------------------------------------------
(* A save: to_config, then Config::save.                                   *)

\* What does not parse, in the form or in the file, is refused and changes
\* nothing. A file that another instance has just truncated reads as empty.
BeginSave ==
  /\ AtForm
  /\ Valid(values)
  /\ file.text # "garbage"
  /\ draft' = MergeInto(file, ToConfig(values))
  /\ phase' = "opening"
  /\ hurt' = (hurt \/ other.at = "writing")
  /\ UNCHANGED <<cfg, values, dirty, browser, file, crossed, outside, placed, saved>>

\* fs::write opens with O_TRUNC, or cannot and leaves the file as it is.
OpenForWrite ==
  /\ phase = "opening"
  /\ \/ /\ file' = Empty
        /\ phase' = "writing"
        /\ crossed' = (crossed \/ other.at = "writing")
        /\ saved' = {}
        /\ UNCHANGED draft
     \/ /\ phase' = "form"
        /\ draft' = Empty
        /\ UNCHANGED <<file, crossed, saved>>
  /\ UNCHANGED <<cfg, values, dirty, browser, outside, placed, hurt>>

\* The text arrives; two texts written over each other may be neither.
Lands(text) == IF crossed THEN {text, file, Garbage} ELSE {text}

\* Mutant: the settings in force stay what they were.
FinishWrite_KeepsConfig ==
  /\ phase = "writing"
  /\ file' \in Lands(draft)
  /\ phase' = "form"
  /\ dirty' = FALSE
  /\ draft' = Empty
  /\ saved' = IF crossed THEN {} ELSE {ToConfig(values)}
  /\ hurt' = (hurt \/ crossed)
  /\ crossed' = (crossed /\ other.at = "writing")
  /\ UNCHANGED <<cfg, values, browser, outside, placed>>

FinishWrite ==
  /\ phase = "writing"
  /\ file' \in Lands(draft)
  /\ phase' = "form"
  /\ cfg' = ToConfig(values)
  /\ dirty' = FALSE
  /\ draft' = Empty
  /\ saved' = IF crossed THEN {} ELSE {ToConfig(values)}
  /\ hurt' = (hurt \/ crossed)
  /\ crossed' = (crossed /\ other.at = "writing")
  /\ UNCHANGED <<values, browser, outside, placed>>

\* Mutant: dirty is reset before the save has succeeded.
WriteFails_LooksSaved ==
  /\ phase = "writing"
  /\ file' \in Part(draft)
  /\ phase' = "form"
  /\ dirty' = FALSE
  /\ draft' = Empty
  /\ hurt' = TRUE
  /\ crossed' = (crossed /\ other.at = "writing")
  /\ UNCHANGED <<cfg, values, browser, outside, placed, saved>>

\* The disk is full: part of the text is there, the notice says so.
WriteFails ==
  /\ phase = "writing"
  /\ file' \in Part(draft)
  /\ phase' = "form"
  /\ draft' = Empty
  /\ hurt' = TRUE
  /\ crossed' = (crossed /\ other.at = "writing")
  /\ UNCHANGED <<cfg, values, dirty, browser, outside, placed, saved>>

\* The process is gone: quit at HOME, and Ctrl+C, a signal or a power cut anywhere.
Stop ==
  /\ phase # "off"
  /\ phase' = "off"
  /\ cfg' = Defaults
  /\ values' = FromConfig(Defaults)
  /\ dirty' = FALSE
  /\ browser' = NoBrowser
  /\ draft' = Empty
  /\ hurt' = (hurt \/ phase = "writing")
  /\ crossed' = (crossed /\ other.at = "writing")
  /\ UNCHANGED <<file, outside, placed, saved>>

-----------------------------------------------------------------------------
(* The others.                                                             *)

Busy == phase \in {"opening", "writing"} \/ other.at # "idle"

\* The operator's editor replaces the file: one key of this program's set to
\* anything or taken out, the foreign keys as the operator likes. An edit of a
\* quiet file puts right what an earlier accident did to it.
HandEdit ==
  /\ edits < MaxEdits
  /\ \E f \in Fields, fs \in SUBSET Foreign :
       /\ \/ \E v \in Typed(f) :
               file' = Toml([g \in DOMAIN file.keys \cup {f} |->
                               IF g = f THEN v ELSE file.keys[g]], fs)
          \/ file' = Toml(Restrict(file.keys, DOMAIN file.keys \ {f}), fs)
       /\ placed' = fs
  /\ hurt' = Busy
  /\ crossed' = (crossed \/ phase = "writing" \/ other.at = "writing")
  /\ saved' = {}
  /\ edits' = edits + 1
  /\ UNCHANGED <<screen, other>>

\* A second instance, in the calls of a save.
OtherReads ==
  /\ other.at = "idle"
  /\ file.text # "garbage"
  /\ \E own \in OtherSettings :
       other' = [at |-> "opening", draft |-> MergeInto(file, own)]
  /\ hurt' = (hurt \/ phase = "writing")
  /\ UNCHANGED <<screen, file, crossed, placed, saved, edits>>

OtherOpens ==
  /\ other.at = "opening"
  /\ other' = [other EXCEPT !.at = "writing"]
  /\ file' = Empty
  /\ crossed' = (crossed \/ phase = "writing")
  /\ saved' = {}
  /\ UNCHANGED <<screen, placed, hurt, edits>>

OtherWrites ==
  /\ other.at = "writing"
  /\ file' \in Lands(other.draft)
  /\ other' = [at |-> "idle", draft |-> Empty]
  /\ hurt' = (hurt \/ crossed)
  /\ crossed' = (crossed /\ phase = "writing")
  /\ saved' = {}
  /\ UNCHANGED <<screen, placed, edits>>

OtherDies ==
  /\ other.at # "idle"
  /\ other' = [at |-> "idle", draft |-> Empty]
  /\ hurt' = (hurt \/ other.at = "writing")
  /\ crossed' = (crossed /\ phase = "writing")
  /\ UNCHANGED <<screen, file, placed, saved, edits>>

-----------------------------------------------------------------------------

FormKey ==
  \/ \E f \in Fields : Edit(f) \/ Clear(f) \/ PickYazi(f) \/ OpenBrowser(f)
  \/ Discard
  \/ BeginSave

BrowserKey ==
  Up \/ Down \/ Refilter \/ Ascend
    \/ (browser.open /\ Choose(browser.row)) \/ CloseBrowser

Next ==
  \/ Start \/ OpenForm \/ FormKey \/ BrowserKey
  \/ OpenForWrite \/ FinishWrite \/ WriteFails \/ Stop
  \/ HandEdit \/ OtherReads \/ OtherOpens \/ OtherWrites \/ OtherDies

Spec == Init /\ [][Next]_vars

-----------------------------------------------------------------------------
(* Properties.                                                             *)

\* A directory field never gets a file: operators who type a path into it type
\* a directory's, and both pickers give one, whatever is filtered and hidden.
TypeOK ==
  /\ phase \in {"off", "home", "form", "opening", "writing"}
  /\ \A f \in Fields :
       /\ cfg[f] \in Known(f) \cup {None, Blank, Default}
       /\ values[f] \in Typed(f) \cup Known(f) \cup {Default}
       /\ RightKind(f, cfg[f]) /\ RightKind(f, values[f])
  /\ dirty \in BOOLEAN /\ crossed \in BOOLEAN /\ hurt \in BOOLEAN
  /\ browser.open =>
       /\ browser.field \in DirFields \cup FileFields
       /\ browser.cwd \in Dirs
       /\ browser.row >= 1
       /\ browser.row <= RowCount(browser) \/ (browser.row = 1 /\ RowCount(browser) = 0)
  /\ file.text \in {"missing", "toml", "garbage"}
  /\ placed \subseteq Foreign /\ file.foreign \subseteq Foreign
  /\ other.at \in {"idle", "opening", "writing"}
  /\ edits \in 0 .. MaxEdits

\* What "Saved" promises: until somebody else writes the file, the next start
\* reads from it exactly the settings that were saved, a cleared option
\* cleared and an empty field its default, and they are those in force, which
\* the builds use.
SavedIsReloaded ==
  \A c \in saved : Loads /\ Load = c /\ (phase # "off" => cfg = c)

\* Keys of a newer version, or put in by hand, survive any number of saves by
\* any instance, unless a save was cut short or another write came between its
\* calls.
ForeignKeysSurvive ==
  ~hurt /\ phase # "writing" /\ other.at # "writing" => file.foreign = placed

\* What a form without "unsaved changes" would save is what is in force. The one
\* exception is a blank that was put into the file by hand: it is in force as it
\* is, the form shows it as empty, and to save that clears the option, or sets its
\* default. A save by this program, and what is read from it, leaves none.
FormIsHonest ==
  phase \in {"form", "opening", "writing"} /\ ~dirty =>
    \A f \in Fields :
      \/ ToConfig(values)[f] = cfg[f]
      \/ cfg[f] = Blank /\ values[f] = Blank /\ saved = {}

=============================================================================
