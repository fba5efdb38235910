-------------------------------- MODULE MCStore --------------------------------
(***************************************************************************)
(* The store on three kinds of device, one of them chosen at the start.    *)
(* On a "rough" one tasks may not be created, with two pages and a folder  *)
(* to choose from.  On one with "apps" there is a page and a folder, and   *)
(* an app is installed and removed.  On a "steady" one, with two pages,    *)
(* every task is created, and the loop and the tasks are fair: only there  *)
(* a fetch has to come to an end.                                          *)
(***************************************************************************)
EXTENDS Store

CONSTANTS p1, p2, f1, a

VARIABLE kind

storeVars == <<kind, vars>>

TwoPages == {p1, p2}
OneFolder == {f1}
OneApp == {a}

Rough  == INSTANCE Store WITH Apps <- {}
Cards  == INSTANCE Store WITH Pages <- {p1}
Steady == INSTANCE Store WITH Folders <- {}, Apps <- {}, TasksFail <- FALSE

StoresInit == \/ kind = "rough" /\ Rough!Init
              \/ kind = "apps" /\ Cards!Init
              \/ kind = "steady" /\ Steady!Init

StoresNext == /\ UNCHANGED kind
              /\ \/ kind = "rough" /\ Rough!Next
                 \/ kind = "apps" /\ Cards!Next
                 \/ kind = "steady" /\ Steady!Next

StoresSpec ==
  /\ StoresInit /\ [][StoresNext]_storeVars
  /\ WF_storeVars(kind = "steady" /\ Steady!Loop /\ UNCHANGED kind)
  /\ WF_storeVars(kind = "steady" /\ Steady!CatalogFetched /\ UNCHANGED kind)
  /\ WF_storeVars(kind = "steady" /\ (Steady!InfoFetched \/ Steady!InfoScans) /\ UNCHANGED kind)
  /\ WF_storeVars(kind = "steady" /\ (Steady!InstallWrites \/ Steady!InstallScans) /\ UNCHANGED kind)

\* On a steady device fetches put off, interrupted or overtaken come to rest.
SettlesWhenSteady == kind = "steady" => StoreSettles

\* There the listings an app held back come when it has ended.
ListingsWhenSteady == kind = "steady" => Steady!ListingsComeAfterApp

\* There the list of a device that is online does not say Loading for ever.
LoadingGoesWhenSteady == kind = "steady" => LoadingGoes
=============================================================================
