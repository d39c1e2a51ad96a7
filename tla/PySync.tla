------------------------------- MODULE PySync -------------------------------
(***************************************************************************)
(* The same program in Python (python/feed_handler.py, python/book.py):    *)
(* the steps of BookSync, with three differences.  All of it runs on one   *)
(* thread, so nothing comes between two steps without an await.  No panic  *)
(* and no hanging request ends a task: sync_book catches what a snapshot   *)
(* raises, run_shard treats it as a lost connection, and the client's      *)
(* requests time out.  And a socket that is closed in order ends the read  *)
(* loop without an exception.                                              *)
(***************************************************************************)
EXTENDS BookSync

(* The thread is within a handler: it has not awaited since its last step. *)
Occupied ==
  shard \in {"requesting", "publishing", "resetting", "aborting"} \/ sweeper = "spawning"

(* The async for ends, the connection is left, and the loop of run_shard   *)
(* starts over: the books, the sync tasks and sync_tasks stay as they are. *)
CleanClose ==
  /\ shard = "reading" /\ disconnects < MaxDisconnects
  /\ shard' = "offline"
  /\ disconnects' = disconnects + 1
  /\ wire' = <<>>
  /\ UNCHANGED <<venue, handle, task, sweeper, sweeps, unsound, deaths, bookVars,
                 published>>

PyShard ==
  \/ ~Occupied /\ (Connect \/ Read \/ Disconnect \/ CleanClose)
  \/ RequestSync \/ Publish \/ ResetBook \/ AbortSyncs

PySyncTask(t) == ~Occupied /\ (Check(t) \/ Serve(t) \/ Fail(t) \/ Apply(t))

PySweeper == (~Occupied /\ TakeStale) \/ SpawnResync

PyNext == Venue \/ PyShard \/ (\E t \in Tasks : PySyncTask(t)) \/ PySweeper

PySpec == Init /\ [][PyNext]_vars
=============================================================================
