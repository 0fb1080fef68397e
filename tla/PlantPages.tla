----------------------------- MODULE PlantPages -----------------------------
(***************************************************************************)
(* What the pages of the sectors offer of a tank and what the service      *)
(* accepts.  A page (PlantBoardPage.tsx) decides from the state of the     *)
(* tank, its newest sample and the configuration of the plant, which it    *)
(* asks for once; the service decides from the rows, the role of the user  *)
(* and his permission on the plant.  The two sets of rules are written     *)
(* apart, one in each program.  Screens are up to date here: what a stale  *)
(* one leads to is in PlantScreens.                                        *)
(***************************************************************************)
EXTENDS Plant

VARIABLE
  config   \* tanks of the plants whose configuration the browser of a user holds

pagesVars == <<vars, config>>

\* A browser holds no configuration until the first answer.
PagesInit ==
  /\ Init
  /\ config = [u \in Users |-> {}]

-----------------------------------------------------------------------------
\* The pages the router opens to a role.
PagesOf(u) ==
  {s \in {"fabricacion", "laboratorio", "envasado"} :
     Role[u] \in {"ADMIN", CASE s = "fabricacion" -> "FABRICACION"
                             [] s = "laboratorio" -> "LABORATORIO"
                             [] s = "envasado"    -> "ENVASADO"}}

NewestSample(t) ==
  IF tank[t].activeLot = NoLot THEN "NONE" ELSE LastOr(samples[tank[t].activeLot], "NONE")

OfferedByManufacturing(t) ==
  LET s == tank[t].state
  IN CASE s = "VACIO" -> {"start", "serviceOut"}
       [] s = "FABRICANDO" -> {"sendLab", "correctLot"}
       [] s = "AJUSTE" -> {"sendLab"}
       [] s = "RECHAZADO" -> {"emptyRejected"}
       [] s = "FUERA_DE_SERVICIO" -> {"serviceIn"}
       [] OTHER -> {}

\* Mutant: the page remembers that the first sample was received.
OfferedByFirstSample(t) ==
  IF tank[t].state = "AJUSTE" THEN {"editAdjustment"}
  ELSE IF tank[t].state # "LABORATORIO" THEN {}
  ELSE LET first == samples[tank[t].activeLot][1]
       IN CASE first = "AWAITING_RECEIPT" -> {"receiveSample"}
            [] first = "RECEIVED" -> {"startAnalysis"}
            [] OTHER -> {"quality"}

OfferedByLaboratory(t) ==
  IF tank[t].state = "AJUSTE" THEN {"editAdjustment"}
  ELSE IF tank[t].state # "LABORATORIO" THEN {}
  ELSE CASE NewestSample(t) \in {"NONE", "AWAITING_RECEIPT"} -> {"receiveSample"}
         [] NewestSample(t) = "RECEIVED" -> {"startAnalysis"}
         [] NewestSample(t) = "ANALYZING" -> {"quality"}
         [] OTHER -> {}

\* config.data?.finalOperation is undefined until the configuration arrives.
OfferedByPackaging(u, t) ==
  LET s == tank[t].state
  IN CASE s = "APROBADO" /\ t \in config[u] /\ FinalOperation[t] = "TRANSFER" -> {"startTransfer"}
       [] s = "TRASVASANDO" -> {"finishTransfer"}
       [] s = "APROBADO" -> {"packaging"}
       [] s = "ENVASANDO" -> {"newOrder", "correctOrder", "finish"}
       [] OTHER -> {}

\* actionsFor.
ActionsFor(u, page, t) ==
  CASE page = "fabricacion" -> OfferedByManufacturing(t)
    [] page = "laboratorio" -> OfferedByLaboratory(t)
    [] page = "envasado"    -> OfferedByPackaging(u, t)

\* submit: the route of each action of the page, with the version on the card.
Submit(u, t, action) ==
  LET v == tank[t].version
  IN \/ action = "start" /\ \E l \in Lots, o \in Contents : Start(u, t, v, l, o)
     \/ action = "sendLab" /\ SendToLab(u, t, v)
     \/ action = "receiveSample" /\
          \E now \in BOOLEAN : ReceiveLaboratorySample(u, t, v, now)
     \/ action = "startAnalysis" /\ StartLaboratoryAnalysis(u, t, v)
     \/ action = "quality" /\ \E r \in Results, c \in Contents : Quality(u, t, v, r, c)
     \/ action = "editAdjustment" /\ \E c \in Contents : CorrectQualityAdjustment(u, t, v, c)
     \/ action = "packaging" /\ \E c \in Contents : StartPackaging(u, t, v, c)
     \/ action = "newOrder" /\ \E c \in Contents : NewPackagingOrder(u, t, v, c)
     \/ action = "correctOrder" /\ \E c \in Contents : CorrectPackaging(u, t, v, c)
     \/ action = "finish" /\ FinishPackaging(u, t, v)
     \/ action = "startTransfer" /\ StartTransfer(u, t, v)
     \/ action = "finishTransfer" /\ FinishTransfer(u, t, v)
     \/ action = "emptyRejected" /\ EmptyRejected(u, t, v)
     \/ action = "serviceOut" /\ ServiceOut(u, t, v)
     \/ action = "serviceIn" /\ ServiceIn(u, t, v)
     \/ action = "correctLot" /\ \E o \in Contents : CorrectLot(u, t, v, o)

Operate(u, t) ==
  /\ \E page \in PagesOf(u) : \E action \in ActionsFor(u, page, t) : Submit(u, t, action)
  /\ UNCHANGED config

\* The answer to the request for the configuration of the plant of t.
ConfigArrives(u, t) ==
  /\ t \notin config[u]
  /\ config' = [config EXCEPT ![u] = @ \cup {t}]
  /\ UNCHANGED vars

\* The browser is loaded again and holds nothing.
Reload(u) ==
  /\ config[u] # {}
  /\ config' = [config EXCEPT ![u] = {}]
  /\ UNCHANGED vars

PagesNext ==
  \E u \in Users :
    \/ \E t \in Tanks : Operate(u, t) \/ ConfigArrives(u, t)
    \/ Reload(u)

PagesSpec == PagesInit /\ [][PagesNext]_pagesVars

-----------------------------------------------------------------------------
(* Properties. *)

\* What the model is too small for: the bound on versions and the finite ids.
Bounded(t, action) ==
  \/ tank[t].version >= MaxVersion
  \/ action = "start" /\ \A l \in Lots : lot[l].tank # NoTank

Accepted(u, t, action) == ENABLED Submit(u, t, action)
Offered(u, t) == UNION {ActionsFor(u, page, t) : page \in PagesOf(u)}

\* Transfers need a permission the pages know nothing of.
Transfers == {"startTransfer", "finishTransfer"}

\* Once the configuration is there, the service accepts, from whoever is shown
\* it, every operation a page offers of a tank as it is, transfers by users
\* without the permission apart (actionsFor, PlantBoardPage.tsx:419-475, against
\* the checks of plant.service.ts:1078-1896).
OfferedIsAccepted ==
  \A u \in Users, t \in Tanks : t \in config[u] =>
    \A action \in Offered(u, t) :
      \/ Bounded(t, action)
      \/ action \in Transfers /\ u \notin CanTransfer /\ Role[u] # "ADMIN"
      \/ Accepted(u, t, action)

\* The operations that take the lot of a tank on; the others correct data.
LeadOn == {"start", "sendLab", "receiveSample", "startAnalysis", "quality", "packaging",
           "finish", "startTransfer", "finishTransfer", "emptyRejected", "serviceIn"}

\* No tank is left in a state in which every page is silent or refused: some
\* operator of a sector, the administrator aside, is offered and allowed an
\* operation that takes the lot on, once the configurations are there
\* (PlantBoardPage.tsx:419-475, AppRouter.tsx:97-119).
SomebodyLeadsOn ==
  \A t \in Tanks : (\A u \in Users : t \in config[u]) =>
    \E u \in Users : Role[u] # "ADMIN" /\
      \E action \in Offered(u, t) \cap LeadOn :
        Bounded(t, action) \/ Accepted(u, t, action)

\* "En una planta configurada para terminar mediante trasvase, un tanque
\* Aprobado mostrara Iniciar trasvase en lugar de Iniciar envasado"
\* (docs/MANUAL_USUARIO_ENVASADO.md:144).
TransferPlantsOfferTransfer ==
  \A u \in Users, t \in Tanks :
    FinalOperation[t] = "TRANSFER" => "packaging" \notin Offered(u, t)

\* "Los botones de la tarjeta son las acciones disponibles en ese momento para
\* la cuenta y el estado del tanque" (docs/MANUAL_USUARIO_ADMINISTRADOR.md:132).
ButtonsAreForTheAccount ==
  \A u \in Users, t \in Tanks : t \in config[u] =>
    \A action \in Offered(u, t) : Bounded(t, action) \/ Accepted(u, t, action)
=============================================================================
