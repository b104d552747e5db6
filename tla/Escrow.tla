------------------------------- MODULE Escrow -------------------------------
(***************************************************************************)
(* nixnas-escrow-recovery: a recovery key is made on the build machine,    *)
(* added to the LUKS header of the store and uploaded to a vault, by a     *)
(* script that can fail, be interrupted or be killed between any two of    *)
(* its commands and that the operator then simply runs again               *)
(* (modules/crypto/recovery-escrow.nix).                                   *)
(*                                                                         *)
(* All runs are for one host and one device, the case in which they meet.  *)
(* A key is 256 random bits, so it is named by the run that made it.       *)
(***************************************************************************)
EXTENDS Naturals, FiniteSets

CONSTANTS
  Runs,       \* invocations of the script
  MaxSlots,   \* key slots of a LUKS2 header (32)
  Nobody      \* no run

ASSUME NobodyIsNoRun == Nobody \notin Runs
ASSUME SlotsAreFinite == MaxSlots \in Nat

VARIABLES
  pc,        \* the next command of a run
  opts,      \* what it was called with
  exit,      \* how it ended: "done", "failed", "killed" or "none"
  work,      \* runs whose key is in clear in their working directory
  slots,     \* keys the header of the store has, besides the daily passphrase
  vault,     \* keys the vault has an item for, under the name of the host
  outFile,   \* whose key the file given as --recovery-out holds
  outBy,     \* the run that wrote to that file last
  remade     \* keys that were in a header that has been made anew since

vars == <<pc, opts, exit, work, slots, vault, outFile, outBy, remade>>

\* --no-upload, --recovery-out, and whether the vault's address and the file
\* of credentials were there.
Options == [upload: BOOLEAN, out: BOOLEAN, ready: BOOLEAN]

Commands == {"start", "slot", "install", "cat", "check", "login",
             "create", "cleanup", "exited"}

-----------------------------------------------------------------------------

Init ==
  /\ pc = [r \in Runs |-> "start"]
  /\ opts \in [Runs -> Options]
  /\ exit = [r \in Runs |-> "none"]
  /\ work = {}
  /\ slots = {}
  /\ vault = {}
  /\ outFile = Nobody
  /\ outBy = Nobody
  /\ remade = {}

Goto(r, next) == pc' = [pc EXCEPT ![r] = next]

\* Mutant: there is no trap.
Fail_NoTrap(r) ==
  /\ Goto(r, "exited")
  /\ exit' = [exit EXCEPT ![r] = "failed"]

\* errexit: the shell goes to its EXIT trap.
Fail(r) ==
  /\ Goto(r, "cleanup")
  /\ exit' = [exit EXCEPT ![r] = "failed"]

\* The working directory, the trap, then the key, which is in clear from here.
\* A call that is refused for its arguments ends before this and is left out.
MakeKey(r) ==
  /\ pc[r] = "start"
  /\ Goto(r, "slot")
  /\ work' = work \cup {r}
  /\ UNCHANGED <<opts, exit, slots, vault, outFile, outBy, remade>>

\* Mutant: a key that was not added does not stop the script.
AddSlot_GoesOn(r) ==
  /\ pc[r] = "slot"
  /\ \/ Cardinality(slots) + 1 < MaxSlots /\ slots' = slots \cup {r}
     \/ UNCHANGED slots
  /\ Goto(r, IF opts[r].out THEN "install" ELSE "check")
  /\ UNCHANGED <<opts, exit, work, vault, outFile, outBy, remade>>

\* luksAddKey, authorised by the daily passphrase: it changes the header as a
\* whole or not at all, and needs a free slot.
AddSlot(r) ==
  /\ pc[r] = "slot"
  /\ \/ /\ Cardinality(slots) + 1 < MaxSlots
        /\ slots' = slots \cup {r}
        /\ Goto(r, IF opts[r].out THEN "install" ELSE "check")
        /\ UNCHANGED exit
     \/ Fail(r) /\ UNCHANGED slots
  /\ UNCHANGED <<opts, work, vault, outFile, outBy, remade>>

\* install -m 0600 /dev/null: an earlier file of that name is emptied.
InstallOut(r) ==
  /\ pc[r] = "install"
  /\ \/ /\ outFile' = Nobody
        /\ outBy' = r
        /\ Goto(r, "cat")
        /\ UNCHANGED exit
     \/ Fail(r) /\ UNCHANGED <<outFile, outBy>>
  /\ UNCHANGED <<opts, work, slots, vault, remade>>

CatOut(r) ==
  /\ pc[r] = "cat"
  /\ \/ outFile' = r /\ Goto(r, "check") /\ UNCHANGED exit
     \/ outFile' = Nobody /\ Fail(r)
  /\ outBy' = r
  /\ UNCHANGED <<opts, work, slots, vault, remade>>

\* With --no-upload the run is over; without it, address and credentials are
\* looked at only now, when the slot is there already.
CheckUpload(r) ==
  /\ pc[r] = "check"
  /\ \/ /\ ~opts[r].upload
        /\ Goto(r, "cleanup")
        /\ exit' = [exit EXCEPT ![r] = "done"]
     \/ opts[r].upload /\ opts[r].ready /\ Goto(r, "login") /\ UNCHANGED exit
     \/ opts[r].upload /\ ~opts[r].ready /\ Fail(r)
  /\ UNCHANGED <<opts, work, slots, vault, outFile, outBy, remade>>

\* bw config, login and unlock.
Login(r) ==
  /\ pc[r] = "login"
  /\ \/ Goto(r, "create") /\ UNCHANGED exit
     \/ Fail(r)
  /\ UNCHANGED <<opts, work, slots, vault, outFile, outBy, remade>>

\* Mutant: the upload may fail like the sync behind it.
CreateItem_Tolerant(r) ==
  /\ pc[r] = "create"
  /\ vault' \in {vault, vault \cup {r}}
  /\ Goto(r, "cleanup")
  /\ exit' = [exit EXCEPT ![r] = "done"]
  /\ UNCHANGED <<opts, work, slots, outFile, outBy, remade>>

\* bw create item: done and reported, not done, or done with the answer lost.
\* The sync and the logout behind it are allowed to fail. The key is read back
\* for the item; that this succeeds is assumed.
CreateItem(r) ==
  /\ pc[r] = "create"
  /\ \/ /\ vault' = vault \cup {r}
        /\ Goto(r, "cleanup")
        /\ exit' = [exit EXCEPT ![r] = "done"]
     \/ Fail(r) /\ vault' \in {vault, vault \cup {r}}
  /\ UNCHANGED <<opts, work, slots, outFile, outBy, remade>>

\* The EXIT trap: shred what is in the working directory, remove it.
Cleanup(r) ==
  /\ pc[r] = "cleanup"
  /\ Goto(r, "exited")
  /\ work' = work \ {r}
  /\ UNCHANGED <<opts, exit, slots, vault, outFile, outBy, remade>>

\* INT, TERM or HUP between two commands: bash runs its EXIT trap.
Interrupt(r) ==
  /\ pc[r] \notin {"start", "cleanup", "exited"}
  /\ Fail(r)
  /\ UNCHANGED <<opts, work, slots, vault, outFile, outBy, remade>>

\* KILL, a second signal while the trap runs, or the machine is gone: nothing is
\* cleaned up.
Kill(r) ==
  /\ pc[r] \notin {"start", "exited"}
  /\ Goto(r, "exited")
  /\ exit' = [exit EXCEPT ![r] = "killed"]
  /\ UNCHANGED <<opts, work, slots, vault, outFile, outBy, remade>>

Script(r) ==
  \/ MakeKey(r) \/ AddSlot(r) \/ InstallOut(r) \/ CatOut(r)
  \/ CheckUpload(r) \/ Login(r) \/ CreateItem(r) \/ Cleanup(r)

\* The image is built again, or the device is flashed: a new header, with the
\* daily passphrase only.
RemakeHeader ==
  /\ slots # {}
  /\ slots' = {}
  /\ remade' = remade \cup slots
  /\ UNCHANGED <<pc, opts, exit, work, vault, outFile, outBy>>

Next ==
  \/ \E r \in Runs : Script(r) \/ Interrupt(r) \/ Kill(r)
  \/ RemakeHeader

Spec == Init /\ [][Next]_vars

-----------------------------------------------------------------------------
(* Properties.                                                             *)

TypeOK ==
  /\ pc \in [Runs -> Commands]
  /\ opts \in [Runs -> Options]
  /\ exit \in [Runs -> {"none", "done", "failed", "killed"}]
  /\ work \subseteq Runs
  /\ slots \subseteq Runs
  /\ vault \subseteq Runs
  /\ outFile \in Runs \cup {Nobody}
  /\ outBy \in Runs \cup {Nobody}
  /\ remade \subseteq Runs

\* A run that says it is done has left a key that opens the store where it was
\* told to leave it: in the vault, and in the file unless another run wrote to
\* the same file after it. Until the header is made anew.
DoneMeansRecoverable ==
  \A r \in Runs :
    exit[r] = "done" /\ r \notin remade =>
      /\ r \in slots
      /\ opts[r].upload => r \in vault
      /\ opts[r].out /\ outBy = r => outFile = r

\* The slot comes before the upload, over failed and repeated runs: an item whose
\* key no header made since has dropped opens the store. A header made anew, even
\* between slot and upload of one run, leaves items that open nothing; no command
\* of the script can tell.
UploadedWereEnrolled == vault \ remade \subseteq slots

\* When the script has ended by itself or by a first signal, whatever failed, its
\* working directory has no key in clear.
NothingLeftBehind ==
  \A r \in Runs : pc[r] = "exited" /\ exit[r] # "killed" => r \notin work

=============================================================================
