--------------------------- MODULE EntryContract ----------------------------
(* What the flows that store into an entry may rely on: whatever is stored  *)
(* is given to a setup.  A setup is given all of what is stored at the      *)
(* moment it reads, and while anything is stored that no setup was given,   *)
(* one is due.  EntryLifecycle and CertTrust both take this view of an      *)
(* entry, the one of its reloads and the other of its certificate.          *)

CONSTANT Stored   \* what an entry can store

VARIABLES stored,  \* entry.data, or the part of it that matters
          given,   \* what the latest setup to read it was given
          due      \* a setup that will read it is on its way

contractVars == <<stored, given, due>>

ContractInit ==
    /\ stored \in Stored
    /\ given = stored
    /\ due \in BOOLEAN

\* A flow stores what it has validated, be it what is there already.
Store(value) ==
    /\ stored' = value
    /\ due' = TRUE
    /\ UNCHANGED given

\* A retry, a restart of Home Assistant, or a reload for a reason of its own.
ComesDue ==
    /\ due' = TRUE
    /\ UNCHANGED <<stored, given>>

\* A setup reads the entry; another may be due after it.
Give ==
    /\ given' = stored
    /\ due' \in {due, FALSE}
    /\ UNCHANGED stored

ContractNext == ComesDue \/ Give \/ \E value \in Stored : Store(value)

ContractSpec == ContractInit /\ [][ContractNext]_contractVars

\* What follows of an entry that keeps the contract.
UpToDateOrDue == due \/ given = stored

=============================================================================
