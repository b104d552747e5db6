---------------------------- MODULE EscrowProofs ----------------------------
(* The promises of nixnas-escrow-recovery for any number of runs and of    *)
(* key slots, wherever the runs fail, are interrupted or are killed.       *)
EXTENDS Escrow, TLAPS

\* Only a run on its way out has an exit status.
Ended == \A r \in Runs : exit[r] # "none" => pc[r] \in {"cleanup", "exited"}

\* The commands behind luksAddKey.
Behind == {"install", "cat", "check", "login", "create"}

\* Whoever is past luksAddKey, or done, has its key in the header, or had.
Enrolled ==
  \A r \in Runs :
    pc[r] \in Behind \/ exit[r] = "done" => r \in slots \cup remade

\* Whoever is past the file, or done, wrote it, if it was the last to try.
WrittenOut ==
  \A r \in Runs :
    /\ pc[r] \in {"check", "login", "create"} \/ exit[r] = "done"
    /\ opts[r].out
    /\ outBy = r
    => outFile = r

\* Whoever is at the vault was to upload, and is done only with an item there.
Uploaded ==
  \A r \in Runs : exit[r] = "done" /\ opts[r].upload => r \in vault

IInv ==
  /\ TypeOK
  /\ Ended
  /\ Enrolled
  /\ WrittenOut
  /\ Uploaded
  /\ UploadedWereEnrolled
  /\ NothingLeftBehind

LEMMA InitIInv == Init => IInv
BY DEF Init, IInv, TypeOK, Commands, Ended, Enrolled, Behind, WrittenOut,
       Uploaded, UploadedWereEnrolled, NothingLeftBehind

LEMMA TypeStep == TypeOK /\ [Next]_vars => TypeOK'
<1> SUFFICES ASSUME TypeOK, [Next]_vars PROVE TypeOK'
  OBVIOUS
<1> USE DEF TypeOK, Commands, Goto, Fail
<1>1. ASSUME NEW r \in Runs, MakeKey(r) PROVE TypeOK'
  BY <1>1 DEF MakeKey
<1>2. ASSUME NEW r \in Runs, AddSlot(r) PROVE TypeOK'
  BY <1>2 DEF AddSlot
<1>3. ASSUME NEW r \in Runs, InstallOut(r) \/ CatOut(r) PROVE TypeOK'
  BY <1>3 DEF InstallOut, CatOut
<1>4. ASSUME NEW r \in Runs, CheckUpload(r) \/ Login(r) PROVE TypeOK'
  BY <1>4 DEF CheckUpload, Login
<1>5. ASSUME NEW r \in Runs, CreateItem(r) PROVE TypeOK'
  BY <1>5 DEF CreateItem
<1>6. ASSUME NEW r \in Runs, Cleanup(r) \/ Interrupt(r) \/ Kill(r) PROVE TypeOK'
  BY <1>6 DEF Cleanup, Interrupt, Kill
<1>7. CASE RemakeHeader
  BY <1>7 DEF RemakeHeader
<1>8. CASE UNCHANGED vars
  BY <1>8 DEF vars
<1> QED
  BY <1>1, <1>2, <1>3, <1>4, <1>5, <1>6, <1>7, <1>8 DEF Next, Script

\* The key in the header, and the vault behind it.
KeyInv == Ended /\ Enrolled /\ Uploaded /\ UploadedWereEnrolled

LEMMA KeyStep == IInv /\ [Next]_vars => KeyInv'
<1> SUFFICES ASSUME IInv, [Next]_vars PROVE KeyInv'
  OBVIOUS
<1> USE DEF IInv, TypeOK, KeyInv, Ended, Enrolled, Behind, Uploaded,
            UploadedWereEnrolled, Goto, Fail
<1>1. ASSUME NEW r \in Runs, MakeKey(r) PROVE KeyInv'
  BY <1>1 DEF MakeKey
<1>2. ASSUME NEW r \in Runs, AddSlot(r) PROVE KeyInv'
  BY <1>2 DEF AddSlot
<1>3. ASSUME NEW r \in Runs, InstallOut(r) \/ CatOut(r) PROVE KeyInv'
  BY <1>3 DEF InstallOut, CatOut
<1>4. ASSUME NEW r \in Runs, CheckUpload(r) \/ Login(r) PROVE KeyInv'
  BY <1>4 DEF CheckUpload, Login
<1>5. ASSUME NEW r \in Runs, CreateItem(r) PROVE KeyInv'
  BY <1>5 DEF CreateItem
<1>6. ASSUME NEW r \in Runs, Cleanup(r) \/ Interrupt(r) \/ Kill(r) PROVE KeyInv'
  BY <1>6 DEF Cleanup, Interrupt, Kill
<1>7. CASE RemakeHeader
  BY <1>7 DEF RemakeHeader
<1>8. CASE UNCHANGED vars
  BY <1>8 DEF vars
<1> QED
  BY <1>1, <1>2, <1>3, <1>4, <1>5, <1>6, <1>7, <1>8 DEF Next, Script

\* The copies in clear: the file, which any run may empty, and the working
\* directory.
CopyInv == WrittenOut /\ NothingLeftBehind

LEMMA CopyStep == IInv /\ [Next]_vars => CopyInv'
<1> SUFFICES ASSUME IInv, [Next]_vars PROVE CopyInv'
  OBVIOUS
<1> USE DEF IInv, TypeOK, CopyInv, Ended, WrittenOut, NothingLeftBehind,
            Options, Goto, Fail
<1>1. ASSUME NEW r \in Runs, MakeKey(r) PROVE CopyInv'
  BY <1>1 DEF MakeKey
<1>2. ASSUME NEW r \in Runs, AddSlot(r) PROVE CopyInv'
  BY <1>2 DEF AddSlot
<1>3. ASSUME NEW r \in Runs, InstallOut(r) PROVE CopyInv'
  BY <1>3 DEF InstallOut
<1>4. ASSUME NEW r \in Runs, CatOut(r) PROVE CopyInv'
  BY <1>4 DEF CatOut
<1>5. ASSUME NEW r \in Runs, CheckUpload(r) \/ Login(r) PROVE CopyInv'
  BY <1>5 DEF CheckUpload, Login
<1>6. ASSUME NEW r \in Runs, CreateItem(r) PROVE CopyInv'
  BY <1>6 DEF CreateItem
<1>7. ASSUME NEW r \in Runs, Cleanup(r) \/ Interrupt(r) \/ Kill(r) PROVE CopyInv'
  BY <1>7 DEF Cleanup, Interrupt, Kill
<1>8. CASE RemakeHeader
  BY <1>8 DEF RemakeHeader
<1>9. CASE UNCHANGED vars
  BY <1>9 DEF vars
<1> QED
  BY <1>1, <1>2, <1>3, <1>4, <1>5, <1>6, <1>7, <1>8, <1>9 DEF Next, Script

LEMMA Inductive == Spec => []IInv
<1>1. IInv /\ [Next]_vars => IInv'
  BY TypeStep, KeyStep, CopyStep DEF IInv, KeyInv, CopyInv
<1> QED
  BY InitIInv, <1>1, PTL DEF Spec

-----------------------------------------------------------------------------

\* Type correctness of the script and of what it leaves behind.
THEOREM TypeCorrect == Spec => []TypeOK
<1>1. IInv => TypeOK
  BY DEF IInv
<1> QED
  BY Inductive, <1>1, PTL

\* A run that says it is done has left its key in the header, in the vault if it
\* was to, and in the file if no other run wrote to it later.
THEOREM DoneIsRecoverable == Spec => []DoneMeansRecoverable
<1>1. IInv => DoneMeansRecoverable
  BY DEF IInv, Enrolled, WrittenOut, Uploaded, DoneMeansRecoverable
<1> QED
  BY Inductive, <1>1, PTL

\* Whatever failed or was repeated, every item of the vault opens the store or was
\* in a header that has been made anew.
THEOREM VaultIsEnrolled == Spec => []UploadedWereEnrolled
<1>1. IInv => UploadedWereEnrolled
  BY DEF IInv
<1> QED
  BY Inductive, <1>1, PTL

\* However many commands failed, a script that ended and was not killed has left
\* no key in clear in its working directory.
THEOREM NothingIsLeft == Spec => []NothingLeftBehind
<1>1. IInv => NothingLeftBehind
  BY DEF IInv
<1> QED
  BY Inductive, <1>1, PTL

=============================================================================
