-------------------------- MODULE ApiUserMigration --------------------------
(***************************************************************************)
(* ApiProxyConfig::migrate_api_user (backend/src/model/config/api_proxy.rs)*)
(* across restarts of the process. API users live either in the config    *)
(* file (api-proxy.yml, `user`) or in the user db file, chosen by the     *)
(* config flag use_user_db; at start-up the function moves them to the    *)
(* chosen store by a sequence of file operations, any of which may fail,  *)
(* and the process may die between any two of them.                      *)
(*                                                                         *)
(* A credential is identified by its <<target, username>> pair and a user *)
(* list is the set of those pairs: the merge loop of lines 264-274 adds a *)
(* stored credential unless its target already holds the username, which  *)
(* is set union. merge_api_user, load_api_user and                        *)
(* backup_api_user_db_file (user_repository, outside this source tree)    *)
(* are taken to add users to the db, read it, and copy it, or to fail.    *)
(***************************************************************************)
EXTENDS Naturals, FiniteSets

CONSTANTS
    Creds,        \* the <<target, username>> pairs that may occur
    Failures,     \* the file operations that may fail: "merge", "save",
                  \* "load", "backup", "remove"
    MaxRestarts,  \* how many times the process may stop or die
    None          \* the user db file does not exist

VARIABLES
    fileUsers,  \* `user` as saved in the config file
    useUserDb,  \* `use_user_db` as saved in the config file
    db,         \* the user db file: its users, or None
    backups,    \* the contents of every backup of the db file
    pc,         \* where the process is in start-up
    user,       \* ApiProxyConfig.user in memory
    errors,     \* the errors vector of this start-up (as a set of steps)
    restarts,   \* stops and crashes so far
    known       \* ghost: every credential present in either store at first

vars == <<fileUsers, useUserDb, db, backups, pc, user, errors, restarts, known>>

DbUsers == IF db = None THEN {} ELSE db

Fails(step) == step \in Failures

-----------------------------------------------------------------------------
(* The process starts: the config file is read, and migrate_api_user      *)
(* takes the branch of use_user_db (line 234), the first one only with    *)
(* users in the config (237), the second only when the db exists (260).   *)
Start ==
    /\ pc = "stopped"
    /\ user' = fileUsers
    /\ errors' = {}
    /\ pc' = IF useUserDb
             THEN IF fileUsers # {} THEN "merge" ELSE "load"
             ELSE IF db # None THEN "f_load" ELSE "done"
    /\ UNCHANGED <<fileUsers, useUserDb, db, backups, restarts, known>>

MergeApiUserNoElse ==
    /\ pc = "merge"
    /\ \/ /\ db' = DbUsers \cup user
          /\ pc' = "clear_save"
          /\ UNCHANGED errors
       \/ /\ Fails("merge")
          /\ errors' = errors \cup {"merge"}
          /\ pc' = "clear_save"
          /\ UNCHANGED db
    /\ UNCHANGED <<fileUsers, useUserDb, backups, user, restarts, known>>

MergeApiUserAbort ==
    /\ pc = "merge"
    /\ \/ /\ db' = DbUsers \cup user
          /\ pc' = "clear_save"
          /\ UNCHANGED errors
       \/ /\ Fails("merge")
          /\ errors' = errors \cup {"merge"}
          /\ pc' = "stopped"
          /\ UNCHANGED db
    /\ UNCHANGED <<fileUsers, useUserDb, backups, user, restarts, known>>

(* Line 238: merge_api_user writes the config's users into the db; only   *)
(* on success are they removed from the config (the else of line 240).    *)
(* MergeApiUserNoElse goes on to the removal after a failed merge;        *)
(* MergeApiUserAbort gives start-up up after a failed merge.             *)
MergeApiUser ==
    /\ pc = "merge"
    /\ \/ /\ db' = DbUsers \cup user
          /\ pc' = "clear_save"
          /\ UNCHANGED errors
       \/ /\ Fails("merge")
          /\ errors' = errors \cup {"merge"}
          /\ pc' = "load"
          /\ UNCHANGED db
    /\ UNCHANGED <<fileUsers, useUserDb, backups, user, restarts, known>>

ClearAndSaveSkipLoad ==
    /\ pc = "clear_save"
    /\ user' = {}
    /\ \/ fileUsers' = {} /\ UNCHANGED errors
       \/ Fails("save") /\ errors' = errors \cup {"save"} /\ UNCHANGED fileUsers
    /\ pc' = "done"
    /\ UNCHANGED <<useUserDb, db, backups, restarts, known>>

(* Lines 241-246: the users are dropped from memory, then the config is   *)
(* saved without them; the users are then loaded from the db (249).       *)
(* ClearAndSaveSkipLoad ends start-up there, without the load.            *)
ClearAndSave ==
    /\ pc = "clear_save"
    /\ user' = {}
    /\ \/ fileUsers' = {} /\ UNCHANGED errors
       \/ Fails("save") /\ errors' = errors \cup {"save"} /\ UNCHANGED fileUsers
    /\ pc' = "load"
    /\ UNCHANGED <<useUserDb, db, backups, restarts, known>>

(* Lines 249-257: the users are loaded from the db; a db file that does   *)
(* not exist holds no users.                                             *)
LoadApiUser ==
    /\ pc = "load"
    /\ \/ user' = DbUsers /\ UNCHANGED errors
       \/ Fails("load") /\ errors' = errors \cup {"load"} /\ UNCHANGED user
    /\ pc' = "done"
    /\ UNCHANGED <<fileUsers, useUserDb, db, backups, restarts, known>>

(* Lines 263-275: the db's users are added to the config's, target by     *)
(* target; a failed load is skipped without an error.                     *)
MergeStoredUsers ==
    /\ pc = "f_load"
    /\ \/ user' = user \cup DbUsers
       \/ Fails("load") /\ UNCHANGED user
    /\ pc' = "f_save"
    /\ UNCHANGED <<fileUsers, useUserDb, db, backups, errors, restarts, known>>

(* Lines 276-280: the config is saved with the users; on failure the db   *)
(* is left alone.                                                         *)
SaveApiProxy ==
    /\ pc = "f_save"
    /\ \/ fileUsers' = user /\ pc' = "f_backup" /\ UNCHANGED errors
       \/ Fails("save") /\ errors' = errors \cup {"save"} /\ pc' = "done"
          /\ UNCHANGED fileUsers
    /\ UNCHANGED <<useUserDb, db, backups, user, restarts, known>>

(* Line 281: backup_api_user_db_file, whose outcome is not checked.       *)
BackupDb ==
    /\ pc = "f_backup"
    /\ \/ backups' = backups \cup {DbUsers}
       \/ Fails("backup") /\ UNCHANGED backups
    /\ pc' = "f_remove"
    /\ UNCHANGED <<fileUsers, useUserDb, db, user, errors, restarts, known>>

(* Line 282: the db file is removed; the result is ignored.               *)
RemoveDb ==
    /\ pc = "f_remove"
    /\ \/ db' = None
       \/ Fails("remove") /\ UNCHANGED db
    /\ pc' = "done"
    /\ UNCHANGED <<fileUsers, useUserDb, backups, user, errors, restarts, known>>

(* The process dies at any point of start-up, or stops after it; memory   *)
(* is lost, the files stay as they are.                                   *)
Crash ==
    /\ pc \notin {"stopped"}
    /\ restarts < MaxRestarts
    /\ pc' = "stopped"
    /\ user' = {}
    /\ restarts' = restarts + 1
    /\ UNCHANGED <<fileUsers, useUserDb, db, backups, errors, known>>

(* While stopped, the administrator switches use_user_db in the config.   *)
SwitchStore ==
    /\ pc = "stopped"
    /\ useUserDb' = ~useUserDb
    /\ UNCHANGED <<fileUsers, db, backups, pc, user, errors, restarts, known>>

(* Start-up is over and the process serves requests.                      *)
Serve ==
    /\ pc = "done"
    /\ UNCHANGED vars

-----------------------------------------------------------------------------
Init ==
    /\ fileUsers \in SUBSET Creds
    /\ useUserDb \in BOOLEAN
    /\ db \in {None} \cup SUBSET Creds
    /\ backups = {}
    /\ pc = "stopped"
    /\ user = {}
    /\ errors = {}
    /\ restarts = 0
    /\ known = fileUsers \cup DbUsers

Next ==
    \/ Start \/ MergeApiUser \/ ClearAndSave \/ LoadApiUser
    \/ MergeStoredUsers \/ SaveApiProxy \/ BackupDb \/ RemoveDb
    \/ Crash \/ SwitchStore \/ Serve

Spec == Init /\ [][Next]_vars

\* A step of start-up. migrate_api_user runs straight through, without
\* waiting, once the process is started, and a stopped process is started
\* again by its service manager; crashes and switches of use_user_db are
\* the environment's and are not fair.
StartupStep ==
    \/ Start \/ MergeApiUser \/ ClearAndSave \/ LoadApiUser
    \/ MergeStoredUsers \/ SaveApiProxy \/ BackupDb \/ RemoveDb

FairSpec == Spec /\ WF_vars(StartupStep)

-----------------------------------------------------------------------------
TypeOK ==
    /\ fileUsers \subseteq Creds
    /\ useUserDb \in BOOLEAN
    /\ db = None \/ db \subseteq Creds
    /\ backups \subseteq SUBSET Creds
    /\ pc \in {"stopped", "merge", "clear_save", "load", "f_load", "f_save",
               "f_backup", "f_remove", "done"}
    /\ user \subseteq Creds
    /\ errors \subseteq {"merge", "save", "load"}
    /\ restarts \in 0..MaxRestarts

(* No credential is lost from the two stores: whatever order of steps,    *)
(* failures, crashes between steps and switches of use_user_db, every     *)
(* credential that was in the config file or in the db at first is still  *)
(* in one of them (migrate_api_user copies before it deletes).            *)
NoCredentialLost ==
    known \subseteq fileUsers \cup DbUsers

(* A start-up that finished without an error serves exactly the users of  *)
(* the store use_user_db selects: the db's with use_user_db, the config   *)
(* file's without.                                                        *)
ServesStoredUsers ==
    pc = "done" /\ errors = {} =>
        user = IF useUserDb THEN DbUsers ELSE fileUsers


(* Refinement: the users of both stores are the users of ApiUsers, the    *)
(* users held in memory once start-up is over are the served ones, and    *)
(* the errors vector tells a serving from a degraded start-up.            *)
AbsStatus ==
    IF pc # "done" THEN "stopped" ELSE IF errors = {} THEN "serving" ELSE "degraded"

Abs == INSTANCE ApiUsers WITH
           users  <- fileUsers \cup DbUsers,
           served <- IF pc = "done" THEN user ELSE {},
           status <- AbsStatus

(* migrate_api_user implements ApiUsers: no step of it, in either store   *)
(* mode, with failures and crashes between steps, adds or drops an API    *)
(* user of the two stores taken together; an error-free start-up serves   *)
(* every user of both stores; and start-up always ends serving.           *)
ApiUsersSpec == Abs!Spec
=============================================================================
