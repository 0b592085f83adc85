----------------------------- MODULE MCBrowser -----------------------------
EXTENDS Browser

\* What is shown where a write is made or where it leads, as far as the write touches it.
\* Of the record a creation makes nothing is cached before, and of the one a deletion takes
\* away nothing is shown after.
Admins == App("Admin")
MakesOrTakesAway(o) == o.then # "" /\ o.do.hook # "useUpdateDailyLog"
Home(p, o) ==
  {q \in Admins[p].shows \cup (IF o.then = "" THEN {} ELSE Admins[o.then].shows) :
     o.do.changes \cap q.reads # {} /\ ~("id" \in ToSet(q.key) /\ MakesOrTakesAway(o))}
OwnPairs ==
  UNION {UNION {{[role |-> "Admin", do |-> o.do, query |-> q] : q \in Home(p, o)} :
                o \in Admins[p].offers} : p \in DOMAIN Admins}
\* The screens of an Admin have everything those of the other roles have: these play one
\* scene each, to walk through what they are offered.
OwnScenes ==
  OwnPairs \cup
    {[role |-> "StoreManager", do |-> useAdjustStock, query |-> useMaterialDetail],
       [role |-> "ProductionManager", do |-> useGenerateQcBatches, query |-> useQcBatchesList]}

\* The write that credits the stock, and what the pages of the material show.
CreditScenes ==
  {[role |-> "StoreManager", do |-> useUpdatePrStatus("Fulfilled"), query |-> q] :
              q \in {useRmInventoryList, useCriticalParts, useMaterialDetail, useMaterialsSummary}}
=============================================================================
