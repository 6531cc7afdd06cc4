----------------------------- MODULE ConfigLoad -----------------------------
(***************************************************************************)
(* Config::load: environment, then the optional file, then a default, for  *)
(* each setting; then clamps.  Chain lists come from one source as a       *)
(* whole.  A chain entry is the id it names, or Bad if a field of it is    *)
(* missing or unreadable.  Of the numeric settings those are kept that are *)
(* clamped, filtered or compared.                                          *)
(***************************************************************************)
EXTENDS Integers, Sequences, SequencesExt

Unset == -1     \* not set, or set to the empty string
Bad == -2       \* set to something that does not parse
NoList == <<-1>>
NoFile == <<>>
Rejected == <<>>

(* env_num: a value that does not parse counts as unset.                   *)
EnvNum(v) == IF v = Bad THEN Unset ELSE v

Setting(env, file, default) ==
    IF EnvNum(env) # Unset THEN EnvNum(env)
    ELSE IF file # Unset THEN file ELSE default

(* check_unique_chain_ids                                                  *)
Distinct(ids) == \A i, j \in DOMAIN ids : ids[i] = ids[j] => i = j

(* parse_chain_specs and parse_file_chains; parse_known_chain_specs, whose *)
(* ids are compared later.                                                 *)
Readable(entries) == \A i \in DOMAIN entries : entries[i] # Bad
ParseChains(entries) ==
    IF Readable(entries) /\ Distinct(entries) THEN entries ELSE NoList

(* Mutant: the registry is compared with the chains, not with itself.      *)
MutCheckKnown(chains, known) == \A i \in DOMAIN chains, j \in DOMAIN known :
    chains[i] # known[j]

(* check_known_chain_ids                                                   *)
CheckKnown(chains, known) == Distinct(chains \o known)

(* The two lists of chains; env.chains and env.known are NoList when unset *)
(* and the registry is empty when no source has one.                       *)
ChainLists(env, file) ==
    LET list(f, none) == IF env[f] # NoList THEN env[f]
                         ELSE IF file # NoFile THEN file[f] ELSE none
        chains == list("chains", NoList)
    IN  [chains |-> IF chains = NoList THEN NoList ELSE ParseChains(chains),
         known |-> list("known", <<>>)]

(* The settings as read, before clamping; a retention of zero is none.     *)
Numbers(env, file) ==
    LET num(f, default) ==
          Setting(env[f], IF file = NoFile THEN Unset ELSE file[f], default)
        keep == num("keep", Unset)
    IN  [maxBatch |-> num("maxBatch", 64), poll |-> num("poll", 30),
         baseBackoff |-> num("baseBackoff", 500),
         maxBackoff |-> num("maxBackoff", 30000),
         concurrency |-> num("concurrency", 8),
         keep |-> IF keep > 0 THEN keep ELSE Unset]

AtLeast(v, least) == IF v < least THEN least ELSE v

Load(env, file) ==
    LET lists == ChainLists(env, file)
        n     == Numbers(env, file)
    IN  IF \/ lists.chains \in {NoList, <<>>} \/ ~Readable(lists.known)
           \/ ~CheckKnown(lists.chains, lists.known)
          THEN Rejected
          ELSE [chains |-> lists.chains, known |-> lists.known,
                maxBatch |-> AtLeast(n.maxBatch, 1), poll |-> AtLeast(n.poll, 1),
                baseBackoff |-> n.baseBackoff,
                maxBackoff |-> AtLeast(n.maxBackoff, n.baseBackoff),
                concurrency |-> AtLeast(n.concurrency, 1), keep |-> n.keep]

-----------------------------------------------------------------------------
(* What the tasks assume of their configuration holds of every one that    *)
(* loads, from whichever of the two sources each part came: one chain per  *)
(* id among ingested and registry chains together, so that no two ingest   *)
(* tasks share rows; a window of at least one block, so that the walk      *)
(* advances; room for one request at a time, without which the fetches of  *)
(* a window never start; a back-off cap not below its base; and no         *)
(* retention of zero blocks, which would prune the rows the walk links to. *)
ConfigMeetsAssumptionsFor(env, file) ==
    LET config == Load(env, file)
        ids    == config.chains \o config.known
    IN  config # Rejected =>
          /\ config.chains # <<>>
          /\ \A i, j \in DOMAIN ids : i # j => ids[i] # ids[j]
          /\ \A i \in DOMAIN ids : ids[i] \notin {Bad, Unset}
          /\ config.maxBatch >= 1 /\ config.poll >= 1 /\ config.concurrency >= 1
          /\ config.maxBackoff >= config.baseBackoff
          /\ config.keep # 0
=============================================================================
