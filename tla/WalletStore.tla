----------------------------- MODULE WalletStore -----------------------------
(***************************************************************************)
(* One scope's wallets: the map of LocalSignerFactory and the encrypted    *)
(* file of WalletStore (src/signing/local-signer.ts, wallet-store.ts).     *)
(* The scope is __stdio__, the one that also migrates the legacy file;     *)
(* the others have Legacy = {}.  Scopes share nothing but the directory.   *)
(*                                                                         *)
(* save() snapshots the map, then awaits mkdir, writeFile(tmp) and         *)
(* rename(tmp, file).  Nothing orders the saves of a scope, and they share *)
(* one tmp path: a file is a name for an inode, opening tmp truncates the  *)
(* inode it names (or makes one), and writes go to the inode that was      *)
(* opened, under whatever name it has by then.  Encryption is left out:    *)
(* an inode's content can be read exactly when it is one whole save.       *)
(***************************************************************************)
EXTENDS Naturals, FiniteSets

CONSTANTS
  Calls,     \* create_wallet / import_wallet calls; each makes wallet `call'
  Legacy,    \* wallets in ~/.eto/wallets.enc
  Inodes,    \* enough to tell the open files apart
  MaxCrashes,
  None

InodesAssumption ==
  /\ IsFiniteSet(Calls) /\ IsFiniteSet(Legacy) /\ IsFiniteSet(Inodes)
  /\ Cardinality(Inodes) > Cardinality(Calls) + 3
  /\ None \notin Inodes
  /\ Calls \cap {"migration", "resave"} = {}

Savers == Calls \cup {"migration", "resave"}
Wallets == Calls \cup Legacy
Partial == [wallets |-> {}, form |-> "partial"]  \* opened, nothing written
Garbled == [wallets |-> {}, form |-> "garbled"]  \* two saves written over
(* form "old": saved without evmAddress; "new": with it. *)

VARIABLES
  mem,        \* walletsByScope.get(scope)
  load,       \* the load of the scope's store: where it is
  saver,      \* each save: [pc, snap, fd]
  file, tmp,  \* <scope>.enc and <scope>.enc.tmp: an inode or None
  data,       \* inode -> content
  legacy,     \* the legacy file is still in place
  acked,      \* history: wallets whose creation was answered
  overlapped, \* history: a save started while another one was running
  blind,      \* history: a save started that had not seen the file's content
  crashes

vars ==
  <<mem, load, saver, file, tmp, data, legacy, acked, overlapped, blind, crashes>>

NoSave == [pc |-> "idle", snap |-> Partial, fd |-> None]

Init ==
  /\ mem = {}
  /\ load = "none"
  /\ saver = [s \in Savers |-> NoSave]
  /\ file = None /\ tmp = None
  /\ data = [i \in Inodes |-> Partial]
  /\ legacy = (Legacy # {})
  /\ acked = {} /\ overlapped = FALSE /\ blind = FALSE /\ crashes = 0

Saving == {s \in Savers : saver[s].pc \in {"open", "write", "rename"}}

(* persistScope / save(): the snapshot; the awaits follow. *)
StartSave(s, ws, form) ==
  /\ saver' = [saver EXCEPT ![s] = [pc |-> "open", fd |-> None,
                                    snap |-> [wallets |-> ws, form |-> form]]]
  /\ overlapped' = (overlapped \/ Saving # {})

(* createWallet, importWallet: storeFor begins the load on first use. *)
Call(c) ==
  /\ saver[c].pc = "idle" /\ c \notin mem \cup acked
  /\ saver' = [saver EXCEPT ![c].pc = "wait"]
  /\ load' = IF load = "none" THEN "stat" ELSE load
  /\ UNCHANGED <<mem, file, tmp, data, legacy, acked, overlapped, blind, crashes>>

(***************************************************************************)
(* migrateLegacyIfNeeded.  A stat that fails counts as "not there", also   *)
(* when the file is; a legacy file that is missing, cannot be read, is too *)
(* short or cannot be decrypted is nothing to migrate.                     *)
(***************************************************************************)
Stat ==
  /\ load = "stat"
  /\ \/ /\ legacy
        /\ load' = "migrate"
        /\ StartSave("migration", Legacy, "old")
        /\ blind' = (blind \/ file # None)
     \/ /\ load' = "read"
        /\ UNCHANGED <<saver, overlapped, blind>>
  /\ UNCHANGED <<mem, file, tmp, data, legacy, acked, crashes>>

(* The end of a load that found nothing: "blind" when there was a file. *)
Nothing == IF file = None THEN "done" ELSE "blind"

(* rename(legacy, .migrated), whose failure is logged; a failed save ends  *)
(* the load with nothing loaded (beginLoad's catch).                       *)
Migrated ==
  /\ load = "migrate"
  /\ \/ /\ saver["migration"].pc = "done"
        /\ legacy' \in BOOLEAN
        /\ load' = "read"
     \/ /\ saver["migration"].pc = "failed"
        /\ load' = Nothing
        /\ UNCHANGED legacy
  /\ UNCHANGED <<mem, saver, file, tmp, data, acked, overlapped, blind, crashes>>

(***************************************************************************)
(* readFile, decryptPayload and beginLoad's onLoaded; wallets without an   *)
(* evmAddress are saved again, and nobody waits for that.  A file that     *)
(* cannot be read (any error of readFile), is too short or does not        *)
(* decrypt (a wrong passphrase) counts as no wallets.                      *)
(***************************************************************************)
Content == IF file = None THEN Partial ELSE data[file]
Read ==
  /\ load = "read"
  /\ \/ /\ load' = "done"
        /\ mem' = mem \cup Content.wallets
        /\ IF Content.form = "old"
           THEN StartSave("resave", mem', "new")
           ELSE UNCHANGED <<saver, overlapped>>
     \/ /\ load' = Nothing
        /\ UNCHANGED <<mem, saver, overlapped>>
  /\ UNCHANGED <<file, tmp, data, legacy, acked, blind, crashes>>

(* The call goes on after ensureLoaded: the new wallet, then persistScope. *)
Create(c) ==
  /\ saver[c].pc = "wait" /\ load \in {"done", "blind"}
  /\ mem' = mem \cup {c}
  /\ StartSave(c, mem', "new")
  /\ blind' = (blind \/ load = "blind")
  /\ UNCHANGED <<load, file, tmp, data, legacy, acked, crashes>>

Unused == Inodes \ ({file, tmp} \cup {saver[s].fd : s \in Savers})

\* Mutant: the wallet file itself is opened for writing.
OpenInPlace(s) ==
  /\ saver[s].pc = "open"
  /\ tmp' = IF file # None THEN file
            ELSE IF tmp = None THEN CHOOSE i \in Unused : TRUE ELSE tmp
  /\ data' = [data EXCEPT ![tmp'] = Partial]
  /\ saver' = [saver EXCEPT ![s].pc = "write", ![s].fd = tmp']
  /\ UNCHANGED <<mem, load, file, legacy, acked, overlapped, blind, crashes>>

(* writeFile(tmp, ...) opens and truncates, then writes. *)
Open(s) ==
  /\ saver[s].pc = "open"
  /\ tmp' = IF tmp = None THEN CHOOSE i \in Unused : TRUE ELSE tmp
  /\ data' = [data EXCEPT ![tmp'] = Partial]
  /\ saver' = [saver EXCEPT ![s].pc = "write", ![s].fd = tmp']
  /\ UNCHANGED <<mem, load, file, legacy, acked, overlapped, blind, crashes>>

(* A shorter payload written over a longer one leaves the longer one's end. *)
Write(s) ==
  /\ saver[s].pc = "write"
  /\ LET there == data[saver[s].fd]
         mine  == saver[s].snap
     IN  data' = [data EXCEPT ![saver[s].fd] =
                    IF Cardinality(there.wallets) > Cardinality(mine.wallets)
                    THEN Garbled ELSE mine]
  /\ saver' = [saver EXCEPT ![s].pc = "rename"]
  /\ UNCHANGED <<mem, load, file, tmp, legacy, acked, overlapped, blind, crashes>>

(* rename(tmp, file), which needs a tmp.  Then the call is answered. *)
Rename(s) ==
  /\ saver[s].pc = "rename" /\ tmp # None
  /\ file' = tmp /\ tmp' = None
  /\ saver' = [saver EXCEPT ![s] = [NoSave EXCEPT !.pc = "done"]]
  /\ acked' = acked \cup ({s} \cap Calls)
  /\ UNCHANGED <<mem, load, data, legacy, overlapped, blind, crashes>>

(* mkdir, writeFile or rename throws: so does the call, its wallet kept in *)
(* memory; a failed re-save is logged.                                     *)
SaveFails(s) ==
  /\ s \in Saving
  /\ saver' = [saver EXCEPT ![s] = [NoSave EXCEPT !.pc = "failed"]]
  /\ UNCHANGED <<mem, load, file, tmp, data, legacy, acked, overlapped, blind, crashes>>

(* The process ends; files stay as they are. *)
Crash ==
  /\ crashes < MaxCrashes
  /\ crashes' = crashes + 1
  /\ mem' = {} /\ load' = "none"
  /\ saver' = [s \in Savers |-> NoSave]
  /\ UNCHANGED <<file, tmp, data, legacy, acked, overlapped, blind>>

Next ==
  \/ \E c \in Calls : Call(c) \/ Create(c)
  \/ \E s \in Savers : Open(s) \/ Write(s) \/ Rename(s) \/ SaveFails(s)
  \/ Stat \/ Migrated \/ Read \/ Crash

Spec == Init /\ [][Next]_vars

-----------------------------------------------------------------------------
Saved == IF file = None THEN {} ELSE data[file].wallets

(***************************************************************************)
(* As long as no two saves of the scope overlapped, and none was made by a *)
(* process whose load had failed on a file that was there, every wallet    *)
(* whose creation was answered is in the wallet file, and the legacy       *)
(* wallets are there or still in the legacy file: whatever crashes and     *)
(* failed writes fell into the migration or the re-save of old entries.    *)
(* The two exceptions are the code's: a wallet file that cannot be read or *)
(* decrypted is an empty map, and the next save writes that over it.       *)
(***************************************************************************)
AloneDurable ==
  ~overlapped /\ ~blind => /\ acked \subseteq Saved
                           /\ legacy \/ Legacy \subseteq Saved

(***************************************************************************)
(* What local-signer.ts says of its stores: wallets persist, so a wallet   *)
(* that was answered is in the file once all saves have ended.             *)
(***************************************************************************)
AckedWalletDurable == Saving = {} => acked \subseteq Saved
=============================================================================
