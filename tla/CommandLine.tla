----------------------------- MODULE CommandLine -----------------------------
(***************************************************************************)
(* `zerobucket verify` and `zerobucket tier --all` (cli.py): loops over a  *)
(* listing of the images, one backend call each, while clients go on       *)
(* storing, tiering and deleting.  The listing may be a sample or limited, *)
(* and verify may do without the bucket's credentials.                     *)
(***************************************************************************)
EXTENDS Client

CONSTANTS
  Commands,  (* command line processes                                       *)
  MaxBusy    (* bound on the calls and commands that are under way at once;
                a delete or a tiering of one image is a step, and not counted *)

ASSUME CommandLineAssumption == MaxBusy \in Nat \ {0}

VARIABLES
  damaged,   (* a history: the images whose bytes stopped having their checksum
                while they were stored, those that were deleted since included *)
  command    (* what each process is doing                              *)

vars == <<clientVars, damaged, command>>

(* tieredThen: images that the listing showed as tiered; exit: the exit     *)
(* status so far.                                                           *)
NoCommand == [pc |-> "idle", name |-> "none", bucket |-> FALSE, listed |-> {}, left |-> {},
              tieredThen |-> {}, mismatches |-> {}, exit |-> 0]

Init ==
  /\ hooks \in Hooks /\ folds \in BOOLEAN
  /\ stored = {} /\ given = [i \in Ids |-> Invalid] /\ tiered = {}
  /\ call = [p \in Clients |-> Idle]
  /\ damaged = {} /\ command = [c \in Commands |-> NoCommand]

-----------------------------------------------------------------------------
Runs(c, r) == command' = [command EXCEPT ![c] = r]

(* The loop is over, or it goes on with the next image. *)
Looped(r) ==
  IF r.left # {} THEN r
  ELSE [r EXCEPT !.pc = "exited"]

Failed(r) == [r EXCEPT !.exit = 1]

(* list_images: one query, before the loop. *)
BeginVerify(c) ==
  /\ command[c].pc = "idle"
  /\ \E bucket \in BOOLEAN : \E sample \in SUBSET stored :
       Runs(c, Looped([NoCommand EXCEPT !.pc = "loop", !.name = "verify", !.bucket = bucket,
                                        !.listed = sample, !.left = sample,
                                        !.tieredThen = sample \cap tiered]))
  /\ UNCHANGED <<clientVars, damaged>>

(* The listing fails: exit status 1. *)
ListFails(c) ==
  /\ command[c].pc = "idle"
  /\ Runs(c, [NoCommand EXCEPT !.pc = "exited", !.exit = 1])
  /\ UNCHANGED <<clientVars, damaged>>

(* Faulty: an image that is gone has no bytes with its checksum. *)
VerifyImageGone(c, i) ==
  /\ command[c].name = "verify" /\ i \in command[c].left
  /\ LET r == [command[c] EXCEPT !.left = @ \ {i}]
     IN \/ /\ i \in r.tieredThen /\ ~r.bucket
           /\ Runs(c, Looped(r))
        \/ /\ i \in r.tieredThen => r.bucket
           /\ i \in tiered => r.bucket
           /\ Runs(c, Looped(IF i \in stored \ damaged THEN r
                             ELSE Failed([r EXCEPT !.mismatches = @ \cup {i}])))
        \/ /\ i \in r.tieredThen => r.bucket
           /\ Runs(c, Looped(Failed(r)))
  /\ UNCHANGED <<clientVars, damaged>>

(* An image that was listed as tiered is skipped without the bucket; one    *)
(* that is gone since is no corruption; one that was tiered since cannot be *)
(* read without the bucket.                                                 *)
VerifyImage(c, i) ==
  /\ command[c].name = "verify" /\ i \in command[c].left
  /\ LET r == [command[c] EXCEPT !.left = @ \ {i}]
     IN \/ /\ i \in r.tieredThen /\ ~r.bucket
           /\ Runs(c, Looped(r))
        \/ /\ i \in r.tieredThen => r.bucket
           /\ i \notin stored
           /\ Runs(c, Looped(r))
        \/ /\ i \in r.tieredThen => r.bucket
           /\ i \in stored /\ (i \in tiered => r.bucket)
           /\ Runs(c, Looped(IF i \in damaged THEN Failed([r EXCEPT !.mismatches = @ \cup {i}]) ELSE r))
        \/ /\ i \in r.tieredThen => r.bucket
           /\ Runs(c, Looped(Failed(r)))
  /\ UNCHANGED <<clientVars, damaged>>

(* list_images(only_untiered=True, limit=...). *)
BeginTierAll(c) ==
  /\ command[c].pc = "idle"
  /\ \E chosen \in SUBSET (stored \ tiered) :
       Runs(c, Looped([NoCommand EXCEPT !.pc = "loop", !.name = "tier", !.listed = chosen,
                                        !.left = chosen]))
  /\ UNCHANGED <<clientVars, damaged>>

(* None is a failure, False is not; the loop goes on whatever is raised.    *)
TierImage(c, i) ==
  /\ command[c].name = "tier" /\ i \in command[c].left
  /\ tiered' = tiered \cup ({i} \cap stored)
  /\ LET r == [command[c] EXCEPT !.left = @ \ {i}]
     IN Runs(c, Looped(IF i \in stored THEN r ELSE Failed(r)))
  /\ UNCHANGED <<hooks, folds, stored, given, call, damaged>>

TierImageFails(c, i) ==
  /\ command[c].name = "tier" /\ i \in command[c].left
  /\ tiered' \in {tiered, tiered \cup ({i} \cap stored)}
  /\ Runs(c, Looped(Failed([command[c] EXCEPT !.left = @ \ {i}])))
  /\ UNCHANGED <<hooks, folds, stored, given, call, damaged>>

Exit(c) ==
  /\ command[c].pc = "exited"
  /\ Runs(c, NoCommand)
  /\ UNCHANGED <<clientVars, damaged>>

(* Storage decays, but not while a command looks at it. *)
Damage(i) ==
  /\ i \in stored \ damaged
  /\ \A c \in Commands : command[c].pc = "idle"
  /\ damaged' = damaged \cup {i}
  /\ UNCHANGED <<clientVars, command>>

-----------------------------------------------------------------------------
Command(c) ==
  \/ BeginVerify(c) \/ ListFails(c) \/ BeginTierAll(c) \/ Exit(c)
  \/ \E i \in Ids : VerifyImage(c, i) \/ TierImage(c, i) \/ TierImageFails(c, i)

Busy ==
  Cardinality({p \in Clients : call[p].pc # "idle"})
  + Cardinality({c \in Commands : command[c].pc # "idle"})

Next ==
  /\ \/ \E p \in Clients : ClientStep(p) /\ UNCHANGED <<damaged, command>>
     \/ \E c \in Commands : Command(c)
     \/ \E i \in Ids : Damage(i)
  /\ Busy' <= MaxBusy

Spec == Init /\ [][Next]_vars

-----------------------------------------------------------------------------
(* Properties *)

TypeOK ==
  /\ hooks \in Hooks /\ folds \in BOOLEAN
  /\ stored \subseteq Ids /\ tiered \subseteq stored /\ damaged \subseteq Ids
  /\ given \in [Ids -> Contents \cup {Invalid}]
  /\ \A p \in Clients : \A k \in DOMAIN call[p].results : call[p].results[k] \in Answers

(* put_many: "one bad image doesn't abort the rest of the batch", and the   *)
(* result of an image is its own, whichever others were rejected and in     *)
(* whatever order they were prepared: a result with an id names a new image *)
(* with exactly these bytes.                                                *)
PutResultsLineUp ==
  \A p \in Clients : At(p, "returned", {"put_many"}) =>
    LET c == call[p]
    IN \A k \in DOMAIN c.items :
         /\ c.results[k] \in Ids => given[c.results[k]] = c.items[k] /\ k \in c.allowed
         /\ c.results[k] \in Ids \cup {"error", "denied"}
         /\ \A j \in DOMAIN c.items : c.results[j] \in Ids /\ c.results[j] = c.results[k] => j = k

(* A position whose name the before_get hook denied or failed on shows no   *)
(* image, even if another position of the batch names the same image and    *)
(* was allowed; and no malformed name gets past the hook.                   *)
HookDecides ==
  \A p \in SyncClients : At(p, "returned", Gets) =>
    \A k \in DOMAIN call[p].items :
      /\ call[p].results[k] \in Contents => k \in call[p].allowed
      /\ k \in call[p].allowed => call[p].items[k].id # Malformed

(* get_many: each result is the image its name names, in the order of the   *)
(* names and however often a name is repeated; "not found" for a name as    *)
(* put returned it means that the image was not there.                      *)
GetManyExact ==
  \A p \in Clients : At(p, "returned", {"get_many"}) =>
    \A k \in call[p].allowed :
      LET name == call[p].items[k]
      IN /\ call[p].results[k] \in Contents => call[p].results[k] = given[name.id]
         /\ call[p].results[k] = "not found" /\ name.spelled = "as put" => name.id \notin call[p].seen

(* "deleted=False with no error means the id simply didn't exist."          *)
DeletedSaysSo ==
  \A p \in Clients : At(p, "returned", {"delete_many"}) =>
    \A k \in DOMAIN call[p].items :
      call[p].results[k] = "absent" =>
        ~ \E i \in call[p].seen : Matches(call[p].items[k], i)

(* An exit status of 0 means what the command says: every image of the      *)
(* listing that is still there and was not skipped as tiered is intact      *)
(* ("OK: all images verified"), or is in object storage now.  A mismatch is *)
(* real: an image whose bytes had decayed, and never one that is only gone  *)
(* or tiered since the listing.                                             *)
ExitCodes ==
  \A c \in Commands : command[c].pc = "exited" =>
    LET r == command[c]
    IN /\ r.mismatches \subseteq damaged
       /\ r.name = "verify" /\ r.exit = 0 =>
            \A i \in r.listed \cap stored :
              (i \in r.tieredThen => r.bucket) => i \notin damaged
       /\ r.name = "tier" /\ r.exit = 0 => r.listed \cap stored \subseteq tiered
=============================================================================
