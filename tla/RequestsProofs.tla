--------------------------- MODULE RequestsProofs ---------------------------
(***************************************************************************)
(* Proofs about the request lists for any number of threads, drives and    *)
(* partitions.  NoRequestForgotten needs that a busy controller is at a    *)
(* drive with requests (CInv), and OneServer that the lists hold exactly   *)
(* the requests their threads wait for (LInv).                             *)
(***************************************************************************)
EXTENDS Requests, ListFacts

\* The requests in the list of a device.
Listed(d) == ToSet(requestList[d])

\* The drive to which the last request of a thread goes in the end.
Target(c) == IF device[c] \in Drive THEN device[c] ELSE sDev[device[c]]

\* The controller is busy exactly while a drive has requests, with the drive
\* whose request it is at, and its timer is queued while a command is out.
CInv ==
  /\ busy => currDrive \in Drive /\ requestList[currDrive] # <<>>
  /\ ~busy => \A d \in Drive : requestList[d] = <<>>
  /\ busy <=> command # "none"
  /\ command = "send" => ~timer
  /\ timer => busy
  /\ command \in {"resend", "pending", "failed"} /\ ~halted => timer

\* No request is in a list twice.
NoDuplicates == \A d \in Device : IsInjective(requestList[d])

\* The thread of a request in the list of a drive waits for that drive.
DriveListsWait == \A d \in Drive : \A c \in Listed(d) : waits[c] = "drive" /\ Target(c) = d

\* The thread of a request in the list of a partition has not gone on.
PartitionListsWait == \A p \in Partition : \A c \in Listed(p) : device[c] = p /\ waits[c] # "run"

\* A thread waits for a server only while its request is in the list.
PartIsListed ==
  \A c \in Client : waits[c] = "part" => device[c] \in Partition /\ c \in Listed(device[c])

\* A partition has requests exactly while it has a server, ...
ListHasServer == \A p \in Partition : requestList[p] # <<>> <=> \E c \in Client : Serves(c, p)

\* ... which is only one.
ServerIsUnique == \A p \in Partition : \A c, e \in Client : Serves(c, p) /\ Serves(e, p) => c = e

\* The lists of requests and the servers of partitions.
LInv == NoDuplicates /\ DriveListsWait /\ PartitionListsWait /\ PartIsListed /\ ListHasServer /\ ServerIsUnique

\* The inductive invariant.
RInv == RequestsTypeOK /\ CInv /\ LInv

----------------------------------------------------------------------------
\* Ranks are natural numbers, as there are finitely many drives.
LEMMA RanksType ==
  ASSUME NEW f \in [Drive \cup {"now"} -> Nat]
  PROVE  Ranks(f) \in [Drive \cup {"now"} -> Nat]
  <1>1. IsFiniteSet(Drive)
    <2>1. IsFiniteSet(1 .. Len(drives)) /\ DOMAIN drives = 1 .. Len(drives)
      BY FS_Interval, RequestsAssumption
    <2>2. drives \in Surjection(1 .. Len(drives), Drive)
      BY <2>1, RequestsAssumption DEF Surjection, Drive, ToSet
    <2>3. QED  BY <2>1, <2>2, FS_Surjection DEF ExistsSurjection
  <1>2. IsFiniteSet(Drive \cup {"now"})  BY <1>1, FS_AddElement
  <1>3. ASSUME NEW k \in Drive \cup {"now"}
        PROVE  Cardinality({f[j] : j \in {i \in DOMAIN f : f[i] < f[k]}}) \in Nat
    <2> DEFINE D == {i \in DOMAIN f : f[i] < f[k]}
               T == {f[j] : j \in D}
    <2>1. IsFiniteSet(D)  BY <1>2, FS_Subset
    <2>2. [j \in D |-> f[j]] \in Surjection(D, T)  BY DEF Surjection
    <2>3. IsFiniteSet(T)  BY <2>1, <2>2, FS_Surjection DEF ExistsSurjection
    <2>4. QED  BY <2>3, FS_CardinalityType
  <1>4. QED  BY <1>3 DEF Ranks

\* AtaChooseDrive finds a drive with requests if there is one.
LEMMA ChooseFacts ==
  ASSUME NEW lists \in [Device -> Seq(Client)], NEW q \in [Drive \cup {"now"} -> Nat]
  PROVE  \/ AtaChooseDrive(lists, q) = "none" /\ \A d \in Drive : lists[d] = <<>>
         \/ AtaChooseDrive(lists, q) \in Drive /\ lists[AtaChooseDrive(lists, q)] # <<>>
  <1> DEFINE waiting == {i \in DOMAIN drives : lists[drives[i]] # <<>>}
             best == {i \in waiting : \A j \in waiting : q[drives[i]] <= q[drives[j]]}
  <1>1. DOMAIN drives \subseteq Nat /\ \A i \in DOMAIN drives : drives[i] \in Drive
    BY RequestsAssumption
  <1>2. AtaChooseDrive(lists, q) = IF waiting = {} THEN "none" ELSE drives[Min(best)]
    BY DEF AtaChooseDrive
  <1>3. CASE waiting = {}
    <2>1. \A d \in Drive : \E i \in DOMAIN drives : d = drives[i]  BY DEF Drive, ToSet
    <2>2. QED  BY <1>2, <1>3, <2>1
  <1>4. CASE waiting # {}
    <2> DEFINE T == {q[drives[i]] : i \in waiting}
    <2>1. T \subseteq Nat /\ T # {}  BY <1>1, <1>4
    <2>2. PICK x \in T : \A y \in T : x <= y  BY Zenon, <2>1, LeastElement
    <2>3. PICK i \in waiting : x = q[drives[i]]  BY <2>2
    <2>4. i \in best  BY <2>2, <2>3
    <2>5. best \subseteq Nat /\ best # {}  BY <1>1, <2>4
    <2>6. Min(best) \in best  BY Zenon, <2>5, MinMember
    <2>7. QED  BY <1>1, <1>2, <1>4, <2>6
  <1>5. QED  BY <1>3, <1>4

----------------------------------------------------------------------------
\* StorageDoRequest starts the controller if it is idle.
LEMMA DoRequestFacts ==
  ASSUME RequestsTypeOK, CInv,
         NEW c \in Client, NEW d \in Drive, NEW lists \in [Device -> Seq(Client)],
         \A e \in Drive : lists[e] = requestList[e],
         StorageDoRequest(c, d, lists), UNCHANGED halted,
         waits' \in [Client -> {"run", "part", "drive", "done"}], device' \in [Client -> Device]
  PROVE  /\ RequestsTypeOK' /\ CInv'
         /\ requestList' = [lists EXCEPT ![d] = Append(lists[d], c)]
  <1> DEFINE lists1 == [lists EXCEPT ![d] = Append(lists[d], c)]
  <1>1. requestList' = lists1 /\ UNCHANGED <<timer, quantums>>
    BY DEF StorageDoRequest
  <1>2. d \in Device /\ lists[d] \in Seq(Client)  BY DEF Device
  <1>3. lists1 \in [Device -> Seq(Client)] /\ lists1[d] # <<>>
    BY Zenon, <1>2, AppendFacts
  <1>4. CASE busy
    <2>1. UNCHANGED <<busy, currDrive, command, sender>>  BY <1>4 DEF StorageDoRequest
    <2>2. RequestsTypeOK'  BY <1>1, <1>3, <2>1 DEF RequestsTypeOK
    <2>3. currDrive \in Drive /\ requestList[currDrive] # <<>>  BY <1>4 DEF CInv
    <2>4. requestList'[currDrive] # <<>>
      BY <1>1, <1>2, <1>3, <2>3 DEF Device
    <2>5. CInv'  BY <1>1, <1>4, <2>1, <2>3, <2>4 DEF CInv
    <2>6. QED  BY <1>1, <2>2, <2>5
  <1>5. CASE ~busy
    <2>1. lists[d] = <<>>  BY <1>5 DEF CInv
    <2>2. AtaControllerRequest(lists1, quantums, c)  BY <1>5, <2>1 DEF StorageDoRequest
    <2> DEFINE drive == AtaChooseDrive(lists1, quantums)
    <2>3. quantums \in [Drive \cup {"now"} -> Nat]  BY DEF RequestsTypeOK
    <2>4. drive \in Drive /\ lists1[drive] # <<>> /\ drive # "none"
      <3> HIDE DEF lists1
      <3>1. QED  BY Zenon, <1>3, <2>3, ChooseFacts, RequestsAssumption
    <2>5. currDrive' = drive /\ busy' = TRUE /\ command' = "send" /\ sender' = c
      BY Zenon, <2>2, <2>4 DEF AtaControllerRequest
    <2> HIDE DEF drive
    <2>6. RequestsTypeOK'  BY Zenon, <1>1, <1>3, <2>4, <2>5 DEF RequestsTypeOK
    <2>7. ~timer  BY <1>5 DEF CInv
    <2>8. requestList'[drive] # <<>>  BY <1>1, <2>4
    <2>9. CInv'  BY <1>1, <2>4, <2>5, <2>7, <2>8 DEF CInv
    <2>10. QED  BY <1>1, <2>6, <2>9
  <1>6. QED  BY <1>4, <1>5

\* A request to a drive preserves the invariant.
LEMMA DriveRequestStep ==
  ASSUME RInv, NEW c \in Client, NEW d \in Drive, DriveRequest(c, d)
  PROVE  RInv'
  <1>1. requestList \in [Device -> Seq(Client)] /\ d \in Device /\ requestList[d] \in Seq(Client)
    BY DEF RInv, RequestsTypeOK, Device
  <1>2. waits[c] = "run" /\ waits' = [waits EXCEPT ![c] = "drive"] /\ device' = [device EXCEPT ![c] = d]
    BY DEF DriveRequest
  <1>3. /\ waits \in [Client -> {"run", "part", "drive", "done"}] /\ device \in [Client -> Device]
        /\ waits' \in [Client -> {"run", "part", "drive", "done"}] /\ device' \in [Client -> Device]
    BY <1>1, <1>2 DEF RInv, RequestsTypeOK
  <1>4. StorageDoRequest(c, d, requestList) /\ UNCHANGED halted  BY DEF DriveRequest
  <1>5. /\ RequestsTypeOK' /\ CInv'
        /\ requestList' = [requestList EXCEPT ![d] = Append(requestList[d], c)]
    BY Zenon, <1>1, <1>3, <1>4, DoRequestFacts DEF RInv
  <1>6. \A e \in Device : e # d => requestList'[e] = requestList[e]  BY <1>1, <1>5
  <1>7. requestList'[d] = Append(requestList[d], c)  BY <1>1, <1>5
  <1>8. c \notin Listed(d)  BY <1>2 DEF RInv, LInv, DriveListsWait
  <1>9. Listed(d)' = Listed(d) \cup {c} /\ IsInjective(requestList'[d])
    BY <1>1, <1>7, <1>8, AppendFacts DEF Listed, RInv, LInv, NoDuplicates
  <1>10. \A e \in Device : e # d => Listed(e)' = Listed(e)  BY <1>6 DEF Listed
  <1>11. \A p \in Partition : p \in Device /\ p # d /\ p \notin Drive  BY RequestsAssumption DEF Device
  <1>12. \A e \in Client : e # c => waits'[e] = waits[e] /\ device'[e] = device[e]  BY <1>2, <1>3
  <1>13. waits'[c] = "drive" /\ device'[c] = d  BY <1>2, <1>3
  <1>14. \A e \in Device : Listed(e) \subseteq Client
    BY <1>1 DEF Listed, ToSet
  <1>15. NoDuplicates'  BY <1>6, <1>9 DEF RInv, LInv, NoDuplicates
  <1>16. DriveListsWait'
    <2>1. \A e \in Drive : \A x \in Listed(e) : x # c  BY <1>2 DEF RInv, LInv, DriveListsWait
    <2>2. \A e \in Drive : \A x \in Listed(e) : x \in Client /\ waits'[x] = "drive" /\ Target(x)' = e
      BY <2>1, <1>12, <1>14 DEF RInv, LInv, DriveListsWait, Target, Device
    <2>3. Target(c)' = d  BY <1>13 DEF Target
    <2>4. QED  BY <2>2, <2>3, <1>9, <1>10, <1>13 DEF DriveListsWait, Device
  <1>17. PartitionListsWait'
    <2>1. \A p \in Partition : \A x \in Listed(p) : x # c  BY <1>2 DEF RInv, LInv, PartitionListsWait
    <2>2. QED  BY <2>1, <1>10, <1>11, <1>12, <1>14 DEF RInv, LInv, PartitionListsWait
  <1>18. PartIsListed'
    BY <1>10, <1>11, <1>12, <1>13 DEF RInv, LInv, PartIsListed
  <1>19. \A p \in Partition : \A e \in Client : Serves(e, p)' <=> Serves(e, p)
    BY <1>2, <1>11, <1>12, <1>13 DEF Serves
  <1>20. ListHasServer'  BY <1>6, <1>11, <1>19 DEF RInv, LInv, ListHasServer
  <1>21. ServerIsUnique'  BY <1>19 DEF RInv, LInv, ServerIsUnique
  <1>22. QED  BY <1>5, <1>15, <1>16, <1>17, <1>18, <1>20, <1>21 DEF RInv, LInv

\* A request to a partition preserves the invariant: the thread becomes the
\* server if and only if there was none.
LEMMA PartitionRequestStep ==
  ASSUME RInv, NEW c \in Client, NEW p \in Partition, PartitionRequest(c, p)
  PROVE  RInv'
  <1> DEFINE lists == [requestList EXCEPT ![p] = Append(requestList[p], c)]
  <1>1. requestList \in [Device -> Seq(Client)] /\ p \in Device /\ requestList[p] \in Seq(Client)
    BY DEF RInv, RequestsTypeOK, Device
  <1>2. \A e \in Device : Listed(e) \subseteq Client  BY <1>1 DEF Listed, ToSet
  <1>3. waits[c] = "run" /\ device' = [device EXCEPT ![c] = p] /\ UNCHANGED halted
    BY DEF PartitionRequest
  <1>4. waits \in [Client -> {"run", "part", "drive", "done"}] /\ device \in [Client -> Device]
    BY DEF RInv, RequestsTypeOK
  <1>5. device' \in [Client -> Device] /\ device'[c] = p /\ \A e \in Client : e # c => device'[e] = device[e]
    BY <1>1, <1>3, <1>4
  <1>6. /\ \A e \in Drive : \A x \in Listed(e) : x # c
        /\ \A q \in Partition : \A x \in Listed(q) : x # c
    BY <1>3 DEF RInv, LInv, DriveListsWait, PartitionListsWait
  <1>7. lists \in [Device -> Seq(Client)] /\ lists[p] = Append(requestList[p], c)
        /\ \A e \in Device : e # p => lists[e] = requestList[e]
    BY <1>1, AppendFacts
  <1>8. ToSet(lists[p]) = Listed(p) \cup {c} /\ IsInjective(lists[p]) /\ lists[p] # <<>>
    BY <1>1, <1>6, <1>7, AppendFacts DEF Listed, RInv, LInv, NoDuplicates
  <1>9. \A e \in Drive : e \in Device /\ e # p /\ e \notin Partition /\ lists[e] = requestList[e]
    BY <1>7, RequestsAssumption DEF Device
  <1>10. CASE requestList[p] = <<>>
    <2> DEFINE d == sDev[p]
    <2>1. d \in Drive  BY RequestsAssumption
    <2>2. StorageDoRequest(c, d, lists) /\ waits' = [waits EXCEPT ![c] = "drive"]
      BY <1>10 DEF PartitionRequest
    <2>3. /\ waits' \in [Client -> {"run", "part", "drive", "done"}] /\ waits'[c] = "drive"
          /\ \A e \in Client : e # c => waits'[e] = waits[e]
      BY <1>4, <2>2
    <2> HIDE DEF d, lists
    <2>4. RequestsTypeOK' /\ CInv' /\ requestList' = [lists EXCEPT ![d] = Append(lists[d], c)]
      BY <1>3, <1>5, <1>7, <1>9, <2>1, <2>2, <2>3, DoRequestFacts DEF RInv
    <2>5. d \in Device /\ d # p /\ lists[d] = requestList[d] /\ requestList[d] \in Seq(Client)
      BY <1>1, <1>9, <2>1
    <2>6. /\ requestList'[d] = Append(requestList[d], c) /\ requestList'[p] = lists[p]
          /\ \A e \in Device : e # d /\ e # p => requestList'[e] = requestList[e]
      BY <1>1, <1>7, <2>4, <2>5
    <2>7. Listed(d)' = Listed(d) \cup {c} /\ IsInjective(requestList'[d])
      BY <1>6, <2>1, <2>5, <2>6, AppendFacts DEF Listed, RInv, LInv, NoDuplicates
    <2>8. Listed(p)' = Listed(p) \cup {c} /\ \A e \in Device : e # d /\ e # p => Listed(e)' = Listed(e)
      BY <1>8, <2>6 DEF Listed
    <2>9. NoDuplicates'  BY Zenon, <1>8, <2>6, <2>7 DEF RInv, LInv, NoDuplicates
    <2>10. DriveListsWait'
      <3>1. \A e \in Drive : \A x \in Listed(e) : x \in Client /\ waits'[x] = "drive" /\ Target(x)' = e
        BY <1>2, <1>5, <1>6, <1>9, <2>3 DEF RInv, LInv, DriveListsWait, Target
      <3>2. Target(c)' = d  BY <1>5, <1>9 DEF Target, d
      <3>3. QED  BY <1>9, <2>3, <2>7, <2>8, <3>1, <3>2 DEF DriveListsWait
    <2>11. PartitionListsWait'
      BY <1>2, <1>5, <1>6, <1>9, <2>1, <2>3, <2>8 DEF RInv, LInv, PartitionListsWait, Device
    <2>12. PartIsListed'
      BY <1>5, <1>9, <2>1, <2>3, <2>8 DEF RInv, LInv, PartIsListed, Device
    <2>13. \A q \in Partition : \A e \in Client : Serves(e, q)' <=> Serves(e, q) \/ (e = c /\ q = p)
      BY <1>3, <1>5, <2>3 DEF Serves
    <2>14. \A e \in Client : ~Serves(e, p)  BY <1>10 DEF RInv, LInv, ListHasServer
    <2>15. ListHasServer'
      BY <1>8, <1>9, <2>1, <2>6, <2>13 DEF RInv, LInv, ListHasServer, Device
    <2>16. ServerIsUnique'
      BY <2>13, <2>14 DEF RInv, LInv, ServerIsUnique
    <2>17. QED  BY <2>4, <2>9, <2>10, <2>11, <2>12, <2>15, <2>16 DEF RInv, LInv
  <1>11. CASE requestList[p] # <<>>
    <2>1. requestList' = lists /\ waits' = [waits EXCEPT ![c] = "part"] /\ UNCHANGED <<controllerVars, quantums>>
      BY <1>11 DEF PartitionRequest
    <2>2. /\ waits' \in [Client -> {"run", "part", "drive", "done"}] /\ waits'[c] = "part"
          /\ \A e \in Client : e # c => waits'[e] = waits[e]
      BY <1>4, <2>1
    <2> HIDE DEF lists
    <2>3. RequestsTypeOK'  BY <1>3, <1>5, <1>7, <2>1, <2>2 DEF RInv, RequestsTypeOK, controllerVars
    <2>4. CInv'  BY <1>3, <1>9, <2>1 DEF RInv, CInv, controllerVars
    <2>5. Listed(p)' = Listed(p) \cup {c} /\ \A e \in Device : e # p => Listed(e)' = Listed(e)
      BY Zenon, <1>7, <1>8, <2>1 DEF Listed
    <2>6. NoDuplicates'  BY Zenon, <1>7, <1>8, <2>1 DEF RInv, LInv, NoDuplicates
    <2>7. DriveListsWait'
      BY <1>2, <1>5, <1>6, <1>9, <2>2, <2>5 DEF RInv, LInv, DriveListsWait, Target
    <2>8. PartitionListsWait'
      BY <1>2, <1>5, <1>6, <2>2, <2>5 DEF RInv, LInv, PartitionListsWait, Device
    <2>9. PartIsListed'
      BY <1>5, <2>2, <2>5 DEF RInv, LInv, PartIsListed, Device
    <2>10. \A q \in Partition : \A e \in Client : Serves(e, q)' <=> Serves(e, q)
      BY <1>3, <1>5, <2>2 DEF Serves
    <2>11. ListHasServer'
      BY <1>7, <1>8, <1>11, <2>1, <2>10 DEF RInv, LInv, ListHasServer, Device
    <2>12. ServerIsUnique'  BY <2>10 DEF RInv, LInv, ServerIsUnique
    <2>13. QED  BY <2>3, <2>4, <2>6, <2>7, <2>8, <2>9, <2>11, <2>12 DEF RInv, LInv
  <1>12. QED  BY <1>10, <1>11

\* AtaFinishRequest preserves the invariant: the controller goes on with a drive
\* that has requests, or there is none.
LEMMA FinishStep ==
  ASSUME RInv, busy, NEW who \in Client \cup {"irq", "none"}, AtaFinishRequest(who)
  PROVE  RInv'
  <1>00. PICK d \in Drive : d = currDrive
    BY DEF RInv, CInv
  <1>01. PICK c : c = Head(requestList[d])  OBVIOUS
  <1>0. d = currDrive /\ c = Head(requestList[d])  BY <1>00, <1>01
  <1> DEFINE lists == [requestList EXCEPT ![d] = Tail(requestList[d])]
             q == Ranks([quantums EXCEPT ![d] = quantums["now"]])
             drive == AtaChooseDrive(lists, q)
  <1>1. requestList \in [Device -> Seq(Client)] /\ d \in Drive /\ d \in Device /\ requestList[d] \in Seq(Client)
        /\ requestList[d] # <<>> /\ IsInjective(requestList[d])
    BY <1>0 DEF RInv, RequestsTypeOK, CInv, LInv, NoDuplicates, Device
  <1>2. /\ Tail(requestList[d]) \in Seq(Client) /\ c \in Client /\ c \in Listed(d)
        /\ ToSet(Tail(requestList[d])) = Listed(d) \ {c} /\ IsInjective(Tail(requestList[d]))
    BY <1>0, <1>1, TailFacts DEF Listed
  <1>3. /\ requestList' = lists /\ waits' = [waits EXCEPT ![c] = "done"] /\ quantums' = q
        /\ timer' = FALSE /\ UNCHANGED <<device, halted>>
    BY <1>0 DEF AtaFinishRequest, StorageEndRequest
  <1>4. AtaControllerRequest(lists, q, who)
    BY <1>0 DEF AtaFinishRequest, StorageEndRequest
  <1>5. lists \in [Device -> Seq(Client)] /\ lists[d] = Tail(requestList[d])
        /\ \A e \in Device : e # d => lists[e] = requestList[e]
    BY <1>1, <1>2
  <1>6. q \in [Drive \cup {"now"} -> Nat]
    <2>1. [quantums EXCEPT ![d] = quantums["now"]] \in [Drive \cup {"now"} -> Nat]
      BY DEF RInv, RequestsTypeOK
    <2>2. QED  BY Zenon, <2>1, RanksType
  <1> HIDE DEF lists, q
  <1>7. \/ drive = "none" /\ \A e \in Drive : lists[e] = <<>>
        \/ drive \in Drive /\ drive # "none" /\ lists[drive] # <<>>
    BY Zenon, <1>5, <1>6, ChooseFacts, RequestsAssumption
  <1>8. /\ currDrive' = drive /\ busy' = (drive # "none")
        /\ command' = IF drive = "none" THEN "none" ELSE "send"
        /\ sender' = IF drive = "none" THEN "none" ELSE who
    BY <1>4 DEF AtaControllerRequest
  <1> HIDE DEF drive
  <1>9. waits \in [Client -> {"run", "part", "drive", "done"}] /\ device \in [Client -> Device]
    BY DEF RInv, RequestsTypeOK
  <1>10. /\ waits' \in [Client -> {"run", "part", "drive", "done"}] /\ waits'[c] = "done"
         /\ \A e \in Client : e # c => waits'[e] = waits[e]
    BY <1>2, <1>3, <1>9
  <1>11. waits[c] = "drive" /\ Target(c) = d  BY <1>1, <1>2 DEF RInv, LInv, DriveListsWait
  <1>12. RequestsTypeOK'
    BY Zenon, <1>3, <1>5, <1>6, <1>7, <1>8, <1>9, <1>10 DEF RInv, RequestsTypeOK
  <1>13. CInv'  BY Zenon, <1>3, <1>7, <1>8 DEF CInv
  <1>14. Listed(d)' = Listed(d) \ {c} /\ \A e \in Device : e # d => Listed(e)' = Listed(e)
    <2>1. ToSet(requestList'[d]) = Listed(d) \ {c}  BY <1>2, <1>3, <1>5
    <2>2. QED  BY <2>1, <1>3, <1>5 DEF Listed
  <1>15. \A e \in Device : Listed(e) \subseteq Client  BY <1>1 DEF Listed, ToSet
  <1>16. NoDuplicates'  BY Zenon, <1>2, <1>3, <1>5 DEF RInv, LInv, NoDuplicates
  <1>17. \A p \in Partition : p \in Device /\ p # d  BY <1>1, RequestsAssumption DEF Device
  <1>18. DriveListsWait'
    <2>1. \A e \in Drive : e # d => c \notin Listed(e)  BY <1>11 DEF RInv, LInv, DriveListsWait
    <2>2. \A e \in Drive : \A x \in Listed(e)' : x \in Listed(e) /\ x # c /\ x \in Client
      BY <1>14, <1>15, <2>1 DEF Device
    <2>3. QED  BY <2>2, <1>3, <1>10 DEF RInv, LInv, DriveListsWait, Target
  <1>19. PartitionListsWait'
    BY <1>2, <1>3, <1>10, <1>14, <1>15, <1>17 DEF RInv, LInv, PartitionListsWait
  <1>20. PartIsListed'
    BY <1>3, <1>10, <1>14, <1>17 DEF RInv, LInv, PartIsListed
  <1>21. \A p \in Partition : \A e \in Client : Serves(e, p)' <=> Serves(e, p)
    BY <1>3, <1>10, <1>11 DEF Serves
  <1>22. ListHasServer'  BY <1>3, <1>5, <1>17, <1>21 DEF RInv, LInv, ListHasServer
  <1>23. ServerIsUnique'  BY <1>21 DEF RInv, LInv, ServerIsUnique
  <1>24. QED  BY <1>12, <1>13, <1>16, <1>18, <1>19, <1>20, <1>22, <1>23 DEF RInv, LInv

\* The thread goes on, and so does the owner of the request it served: the
\* invariant is preserved.
LEMMA DriveDoneStep ==
  ASSUME RInv, NEW c \in Client, DriveDone(c)
  PROVE  RInv'
  <1>0. PICK p \in Device : p = device[c]  BY DEF RInv, RequestsTypeOK
  <1>1. requestList \in [Device -> Seq(Client)] /\ waits[c] = "done" /\ UNCHANGED <<device, halted>>
    BY DEF RInv, RequestsTypeOK, DriveDone
  <1>2. waits \in [Client -> {"run", "part", "drive", "done"}] /\ device \in [Client -> Device]
    BY DEF RInv, RequestsTypeOK
  <1>3. \A e \in Device : Listed(e) \subseteq Client  BY <1>1 DEF Listed, ToSet
  <1>4. \A e \in Drive : e \in Device /\ e \notin Partition  BY RequestsAssumption DEF Device
  <1>5. \A e \in Drive : \A x \in Listed(e) : x # c /\ waits[x] = "drive"
    BY <1>1 DEF RInv, LInv, DriveListsWait
  <1>6. CASE p \notin Partition
    <2>1. /\ requestList' = requestList /\ waits' = [waits EXCEPT ![c] = "run"]
          /\ UNCHANGED <<controllerVars, quantums>>
      BY <1>0, <1>6 DEF DriveDone
    <2>2. /\ waits' \in [Client -> {"run", "part", "drive", "done"}] /\ waits'[c] = "run"
          /\ \A e \in Client : e # c => waits'[e] = waits[e]
      BY <1>2, <2>1
    <2>3. RequestsTypeOK'  BY <1>1, <2>1, <2>2 DEF RInv, RequestsTypeOK, controllerVars
    <2>4. CInv'  BY <1>1, <2>1 DEF RInv, CInv, controllerVars
    <2>5. \A e \in Device : Listed(e)' = Listed(e)  BY <2>1 DEF Listed
    <2>6. NoDuplicates'  BY <2>1 DEF RInv, LInv, NoDuplicates
    <2>7. DriveListsWait'
      BY <1>1, <1>3, <1>4, <1>5, <2>2, <2>5 DEF RInv, LInv, DriveListsWait, Target
    <2>8. PartitionListsWait'
      <3>1. \A r \in Partition : \A x \in Listed(r) : x # c  BY <1>0, <1>6 DEF RInv, LInv, PartitionListsWait
      <3>2. QED  BY <1>1, <1>3, <2>2, <2>5, <3>1 DEF RInv, LInv, PartitionListsWait, Device
    <2>9. PartIsListed'  BY <1>1, <1>2, <2>2, <2>5 DEF RInv, LInv, PartIsListed, Device
    <2>10. \A r \in Partition : \A e \in Client : Serves(e, r)' <=> Serves(e, r)
      BY <1>0, <1>1, <1>6, <2>2 DEF Serves
    <2>11. ListHasServer'  BY <2>1, <2>10 DEF RInv, LInv, ListHasServer
    <2>12. ServerIsUnique'  BY <2>10 DEF RInv, LInv, ServerIsUnique
    <2>13. QED  BY <2>3, <2>4, <2>6, <2>7, <2>8, <2>9, <2>11, <2>12 DEF RInv, LInv
  <1>7. CASE p \in Partition
    <2>1. PICK h : h = Head(requestList[p])  OBVIOUS
    <2> DEFINE lists == [requestList EXCEPT ![p] = Tail(requestList[p])]
               owner == [waits EXCEPT ![h] = "run"]
    <2>2. Serves(c, p)  BY <1>0, <1>1 DEF Serves
    <2>3. requestList[p] \in Seq(Client) /\ requestList[p] # <<>> /\ IsInjective(requestList[p])
      BY <1>1, <1>7, <2>2 DEF RInv, LInv, ListHasServer, NoDuplicates
    <2>4. /\ Tail(requestList[p]) \in Seq(Client) /\ h \in Client /\ h \in Listed(p)
          /\ ToSet(Tail(requestList[p])) = Listed(p) \ {h} /\ IsInjective(Tail(requestList[p]))
      BY <2>1, <2>3, TailFacts DEF Listed
    <2>5. device[h] = p /\ (h # c => waits[h] = "part")
      <3>1. device[h] = p /\ waits[h] # "run"  BY <1>7, <2>4 DEF RInv, LInv, PartitionListsWait
      <3>2. h # c => ~Serves(h, p)  BY <1>7, <2>2, <2>4 DEF RInv, LInv, ServerIsUnique
      <3>3. waits[h] \in {"run", "part", "drive", "done"}  BY <1>2, <2>4
      <3>4. QED  BY <3>1, <3>2, <3>3 DEF Serves
    <2>6. lists \in [Device -> Seq(Client)] /\ lists[p] = Tail(requestList[p])
          /\ \A e \in Device : e # p => lists[e] = requestList[e]
      BY <1>1, <2>4
    <2>7. \A e \in Drive : e # p /\ lists[e] = requestList[e]  BY <1>4, <1>7, <2>6
    <2>8. lists[p] = <<>> <=> Listed(p) \ {h} = {}  BY Zenon, <2>4, <2>6, EmptyFacts
    <2>9. \A e \in Drive : h \notin Listed(e)
      BY <1>5, <2>5
    <2>10. \A r \in Partition : r # p => h \notin Listed(r) /\ c \notin Listed(r)
      BY <1>0, <2>5 DEF RInv, LInv, PartitionListsWait
    <2>11. CASE lists[p] # <<>>
      <3>1. PICK d \in Drive : d = sDev[p]  BY <1>7, RequestsAssumption
      <3>2. StorageDoRequest(c, d, lists) /\ waits' = [owner EXCEPT ![c] = "drive"]
        BY <1>0, <1>7, <2>1, <2>11, <3>1 DEF DriveDone, StorageEndRequest
      <3>3. /\ waits' \in [Client -> {"run", "part", "drive", "done"}] /\ waits'[c] = "drive"
            /\ h # c => waits'[h] = "run"
            /\ \A e \in Client : e # c /\ e # h => waits'[e] = waits[e]
        BY <1>2, <2>4, <3>2
      <3> HIDE DEF lists, owner
      <3>4. RequestsTypeOK' /\ CInv' /\ requestList' = [lists EXCEPT ![d] = Append(lists[d], c)]
        <4>1. UNCHANGED halted /\ device' \in [Client -> Device]  BY <1>1, <1>2
        <4>2. lists \in [Device -> Seq(Client)] /\ \A e \in Drive : lists[e] = requestList[e]  BY <2>6, <2>7
        <4>3. StorageDoRequest(c, d, lists) /\ waits' \in [Client -> {"run", "part", "drive", "done"}]
          BY <3>2, <3>3
        <4>4. QED  BY Zenon, <4>1, <4>2, <4>3, DoRequestFacts DEF RInv
      <3>5. d \in Device /\ d # p /\ lists[d] = requestList[d] /\ requestList[d] \in Seq(Client)
        BY <1>1, <1>4, <2>7
      <3>6. /\ requestList'[d] = Append(requestList[d], c) /\ requestList'[p] = Tail(requestList[p])
            /\ \A e \in Device : e # d /\ e # p => requestList'[e] = requestList[e]
        BY Zenon, <2>6, <3>4, <3>5
      <3>7. Listed(d)' = Listed(d) \cup {c} /\ IsInjective(requestList'[d])
        <4>1. c \notin ToSet(requestList[d]) /\ IsInjective(requestList[d])
          BY <1>5, <3>5 DEF Listed, RInv, LInv, NoDuplicates
        <4>2. QED  BY <3>5, <3>6, <4>1, AppendFacts DEF Listed
      <3>8. Listed(p)' = Listed(p) \ {h} /\ \A e \in Device : e # d /\ e # p => Listed(e)' = Listed(e)
        BY <2>4, <3>6 DEF Listed
      <3>9. NoDuplicates'  BY Zenon, <2>4, <3>6, <3>7 DEF RInv, LInv, NoDuplicates
      <3>10. DriveListsWait'
        <4>1. \A e \in Drive : \A x \in Listed(e) : waits'[x] = "drive" /\ Target(x)' = e
          BY <1>1, <1>3, <1>4, <1>5, <2>9, <3>3 DEF RInv, LInv, DriveListsWait, Target
        <4>2. Target(c)' = d  BY <1>0, <1>1, <1>4, <1>7, <3>1 DEF Target
        <4>3. QED  BY <1>4, <2>7, <3>3, <3>7, <3>8, <4>1, <4>2 DEF DriveListsWait
      <3>11. PartitionListsWait'
        <4>1. \A r \in Partition : r \in Device /\ r # d  BY <1>4 DEF Device
        <4>2. \A r \in Partition : \A x \in Listed(r)' : x \in Listed(r) /\ x # h /\ x \in Client
          BY <1>3, <2>10, <3>8, <4>1
        <4>3. QED  BY <1>1, <3>3, <4>2 DEF RInv, LInv, PartitionListsWait
      <3>12. PartIsListed'
        <4>1. \A e \in Client : waits'[e] = "part" => e # c /\ e # h /\ waits[e] = "part"  BY <3>3
        <4>2. \A r \in Partition : r \in Device /\ r # d  BY <1>4 DEF Device
        <4>3. QED  BY <1>1, <3>8, <4>1, <4>2 DEF RInv, LInv, PartIsListed
      <3>13. \A r \in Partition : \A e \in Client : Serves(e, r)' <=> Serves(e, r)
        BY <1>1, <2>5, <3>3 DEF Serves
      <3>14. ListHasServer'
        <4>1. \A r \in Partition : r \in Device /\ r # d  BY <1>4 DEF Device
        <4>2. requestList'[p] # <<>>  BY <2>6, <2>11, <3>6
        <4>3. QED  BY Zenon, <2>3, <3>6, <3>13, <4>1, <4>2 DEF RInv, LInv, ListHasServer
      <3>15. ServerIsUnique'  BY <3>13 DEF RInv, LInv, ServerIsUnique
      <3>16. QED  BY <3>4, <3>9, <3>10, <3>11, <3>12, <3>14, <3>15 DEF RInv, LInv
    <2>12. CASE lists[p] = <<>>
      <3>1. /\ requestList' = lists /\ waits' = [owner EXCEPT ![c] = "run"]
            /\ UNCHANGED <<controllerVars, quantums>>
        BY <1>0, <1>7, <2>1, <2>12 DEF DriveDone, StorageEndRequest
      <3>2. /\ waits' \in [Client -> {"run", "part", "drive", "done"}] /\ waits'[c] = "run" /\ waits'[h] = "run"
            /\ \A e \in Client : e # c /\ e # h => waits'[e] = waits[e]
        BY <1>2, <2>4, <3>1
      <3> HIDE DEF lists, owner
      <3>3. RequestsTypeOK'  BY <1>1, <2>6, <3>1, <3>2 DEF RInv, RequestsTypeOK, controllerVars
      <3>4. CInv'  BY <1>1, <2>7, <3>1 DEF RInv, CInv, controllerVars
      <3>5. Listed(p)' = {} /\ \A e \in Device : e # p => Listed(e)' = Listed(e)
        BY Zenon, <2>6, <2>8, <2>4, <2>12, <3>1 DEF Listed
      <3>6. NoDuplicates'  BY Zenon, <2>4, <2>6, <3>1 DEF RInv, LInv, NoDuplicates
      <3>7. DriveListsWait'
        BY <1>1, <1>3, <1>4, <1>5, <2>7, <2>9, <3>2, <3>5 DEF RInv, LInv, DriveListsWait, Target
      <3>8. PartitionListsWait'
        BY <1>1, <1>3, <2>10, <3>2, <3>5 DEF RInv, LInv, PartitionListsWait, Device
      <3>9. PartIsListed'
        <4>1. \A e \in Client : waits'[e] = "part" => e # c /\ e # h /\ waits[e] = "part"  BY <3>2
        <4>2. \A e \in Listed(p) : e = h  BY <2>8, <2>12
        <4>3. QED  BY <1>1, <3>5, <4>1, <4>2 DEF RInv, LInv, PartIsListed, Device
      <3>10. \A r \in Partition : \A e \in Client : Serves(e, r)' <=> Serves(e, r) /\ r # p
        <4>1. \A e \in Client : Serves(e, p) => e = c  BY <1>7, <2>2 DEF RInv, LInv, ServerIsUnique
        <4>2. \A e \in Client : ~Serves(e, p)'  BY <1>1, <2>4, <3>2, <4>1 DEF Serves
        <4>3. \A r \in Partition : r # p => \A e \in Client : Serves(e, r)' <=> Serves(e, r)
          BY <1>0, <1>1, <2>5, <3>2 DEF Serves
        <4>4. QED  BY <4>2, <4>3
      <3>11. ListHasServer'
        BY <2>6, <2>12, <3>1, <3>10 DEF RInv, LInv, ListHasServer, Device
      <3>12. ServerIsUnique'  BY <3>10 DEF RInv, LInv, ServerIsUnique
      <3>13. QED  BY <3>3, <3>4, <3>6, <3>7, <3>8, <3>9, <3>11, <3>12 DEF RInv, LInv
    <2>13. QED  BY <2>11, <2>12
  <1>8. QED  BY <1>6, <1>7

\* The controller is idle in the beginning.
LEMMA RequestsInitInv == RequestsInit => RInv
  <1> SUFFICES ASSUME RequestsInit  PROVE RInv
    OBVIOUS
  <1>1. <<>> \in Seq(Client) /\ ToSet(<<>>) = {} /\ IsInjective(<<>>)
    BY DEF ToSet, IsInjective
  <1>2. Head(drives) \in Device  BY RequestsAssumption DEF Device
  <1>3. RequestsTypeOK  BY Zenon, <1>1, <1>2 DEF RequestsInit, RequestsTypeOK
  <1>4. CInv  BY DEF RequestsInit, CInv, Device
  <1>5. \A d \in Device : requestList[d] = <<>> /\ Listed(d) = {} /\ IsInjective(requestList[d])
    BY <1>1 DEF RequestsInit, Listed
  <1>6. \A c \in Client : waits[c] = "run"  BY DEF RequestsInit
  <1>7. NoDuplicates /\ DriveListsWait /\ PartitionListsWait
    BY <1>5 DEF NoDuplicates, DriveListsWait, PartitionListsWait, Device
  <1>8. PartIsListed /\ ListHasServer /\ ServerIsUnique
    BY <1>5, <1>6 DEF PartIsListed, ListHasServer, ServerIsUnique, Serves, Device
  <1>9. QED  BY <1>3, <1>4, <1>7, <1>8 DEF RInv, LInv

\* A step that leaves lists and threads alone preserves what LInv says of them.
LEMMA ListsKept ==
  ASSUME LInv, UNCHANGED <<requestList, waits, device>>
  PROVE  LInv'
  BY DEF LInv, NoDuplicates, DriveListsWait, PartitionListsWait, PartIsListed, ListHasServer, ServerIsUnique,
         Listed, Target, Serves

\* The invariant is inductive.
LEMMA RequestsInductive == RInv /\ [RequestsNext]_requestVars => RInv'
  <1> SUFFICES ASSUME RInv, [RequestsNext]_requestVars  PROVE RInv'
    OBVIOUS
  <1>1. RequestsTypeOK /\ CInv /\ LInv  BY DEF RInv
  <1>2. ASSUME NEW c \in Client, NEW d \in Drive, DriveRequest(c, d)  PROVE RInv'
    BY <1>2, DriveRequestStep
  <1>3. ASSUME NEW c \in Client, NEW p \in Partition, PartitionRequest(c, p)  PROVE RInv'
    BY <1>3, PartitionRequestStep
  <1>4. ASSUME NEW c \in Client, DriveDone(c)  PROVE RInv'
    BY <1>4, DriveDoneStep
  <1>5. CASE CommandSent
    <2>1. UNCHANGED <<requestList, waits, device>>  BY <1>5 DEF CommandSent
    <2>2. RequestsTypeOK'  BY <1>1, <1>5 DEF CommandSent, RequestsTypeOK
    <2>3. CInv'  BY <1>1, <1>5 DEF CommandSent, CInv, RequestsTypeOK
    <2>4. QED  BY <1>1, <2>1, <2>2, <2>3, ListsKept DEF RInv
  <1>6. CASE CommandNotSent
    <2>1. busy  BY <1>1, <1>6 DEF CommandNotSent, CInv
    <2>2. sender \in Client \cup {"irq", "none"}  BY <1>1 DEF RequestsTypeOK
    <2>3. AtaFinishRequest(sender)  BY <1>6 DEF CommandNotSent
    <2>4. PICK who \in Client \cup {"irq", "none"} : AtaFinishRequest(who)  BY <2>2, <2>3
    <2>5. QED  BY <2>1, <2>4, FinishStep
  <1>7. CASE LastSector
    <2>1. busy  BY <1>1, <1>7 DEF LastSector, CInv
    <2>2. AtaFinishRequest("irq")  BY <1>7 DEF LastSector
    <2>3. QED  BY <2>1, <2>2, FinishStep
  <1>8. CASE MoreSectors
    <2>1. UNCHANGED <<requestList, waits, device>>  BY <1>8 DEF MoreSectors
    <2>2. RequestsTypeOK'  BY <1>1, <1>8 DEF MoreSectors, RequestsTypeOK
    <2>3. CInv'  BY <1>1, <1>8 DEF MoreSectors, CInv
    <2>4. QED  BY <1>1, <2>1, <2>2, <2>3, ListsKept DEF RInv
  <1>9. CASE DriveError
    <2>1. UNCHANGED <<requestList, waits, device>>  BY <1>9 DEF DriveError
    <2>2. RequestsTypeOK'  BY <1>1, <1>9 DEF DriveError, RequestsTypeOK
    <2>3. CInv'  BY <1>1, <1>9 DEF DriveError, CInv
    <2>4. QED  BY <1>1, <2>1, <2>2, <2>3, ListsKept DEF RInv
  <1>10. CASE AtaControllerExpiry
    <2>1. UNCHANGED <<requestList, waits, device>>  BY <1>10 DEF AtaControllerExpiry
    <2>2. RequestsTypeOK'  BY Zenon, <1>1, <1>10 DEF AtaControllerExpiry, RequestsTypeOK
    <2>3. CInv'  BY <1>1, <1>10 DEF AtaControllerExpiry, CInv
    <2>4. QED  BY <1>1, <2>1, <2>2, <2>3, ListsKept DEF RInv
  <1>11. CASE Quantum
    <2>1. UNCHANGED <<requestList, waits, device, controllerVars, halted>>  BY <1>11 DEF Quantum
    <2>2. [quantums EXCEPT !["now"] = quantums["now"] + 1] \in [Drive \cup {"now"} -> Nat]
      BY <1>1 DEF RequestsTypeOK
    <2>3. quantums' \in [Drive \cup {"now"} -> Nat]  BY Zenon, <1>11, <2>2, RanksType DEF Quantum
    <2>4. RequestsTypeOK'  BY <1>1, <2>1, <2>3 DEF RequestsTypeOK, controllerVars
    <2>5. CInv'  BY <1>1, <2>1 DEF CInv, controllerVars
    <2>6. QED  BY <1>1, <2>1, <2>4, <2>5, ListsKept DEF RInv
  <1>12. CASE UNCHANGED requestVars
    <2>1. UNCHANGED <<requestList, waits, device>>  BY <1>12 DEF requestVars
    <2>2. RequestsTypeOK'  BY <1>1, <1>12 DEF requestVars, controllerVars, RequestsTypeOK
    <2>3. CInv'  BY <1>1, <1>12 DEF requestVars, controllerVars, CInv
    <2>4. QED  BY <1>1, <2>1, <2>2, <2>3, ListsKept DEF RInv
  <1>13. QED
    BY <1>2, <1>3, <1>4, <1>5, <1>6, <1>7, <1>8, <1>9, <1>10, <1>11, <1>12 DEF RequestsNext

\* The invariant holds in every reachable state.
LEMMA RequestsInvariant == RequestsSpec => []RInv
  BY RequestsInitInv, RequestsInductive, PTL DEF RequestsSpec

----------------------------------------------------------------------------
\* For any number of threads, drives and partitions: no request is left in the
\* list of a drive while the controller is idle.
THEOREM NoRequestForgottenAlways == RequestsSpec => []NoRequestForgotten
  <1>1. RInv => NoRequestForgotten  BY DEF RInv, CInv, NoRequestForgotten
  <1>2. QED  BY <1>1, RequestsInvariant, PTL

\* For any number of threads, drives and partitions: the timer of the controller
\* is never added twice, and is queued only while the controller is busy.
THEOREM TimerWatchesCommandAlways == RequestsSpec => []TimerWatchesCommand
  <1>1. RInv => TimerWatchesCommand  BY DEF RInv, CInv, TimerWatchesCommand
  <1>2. QED  BY <1>1, RequestsInvariant, PTL

\* For any number of threads, drives and partitions: a partition with requests has
\* one thread that serves it, for which all others with requests to it wait.
THEOREM OneServerAlways == RequestsSpec => []OneServer
  <1>1. ASSUME RInv  PROVE OneServer
    <2> SUFFICES ASSUME NEW p \in Partition
                 PROVE  LET servers == {c \in Client : Serves(c, p)}
                        IN /\ requestList[p] # <<>> <=> servers # {}
                           /\ Cardinality(servers) <= 1
                           /\ \A c \in Client : device[c] = p /\ waits[c] = "part" => c \in ToSet(requestList[p])
      BY Zenon DEF OneServer
    <2> DEFINE servers == {c \in Client : Serves(c, p)}
    <2>1. requestList[p] # <<>> <=> servers # {}  BY <1>1 DEF RInv, LInv, ListHasServer
    <2>2. Cardinality(servers) <= 1
      <3>1. \A c, e \in servers : c = e  BY <1>1 DEF RInv, LInv, ServerIsUnique
      <3> HIDE DEF servers
      <3>2. CASE servers = {}  BY <3>2, FS_EmptySet
      <3>3. CASE servers # {}
        <4>1. PICK c \in servers : servers = {c}  BY <3>1, <3>3
        <4>2. QED  BY <4>1, FS_Singleton
      <3>4. QED  BY <3>2, <3>3
    <2>3. \A c \in Client : device[c] = p /\ waits[c] = "part" => c \in ToSet(requestList[p])
      BY <1>1 DEF RInv, LInv, PartIsListed, Listed
    <2>4. QED  BY <2>1, <2>2, <2>3
  <1>2. QED  BY <1>1, RequestsInvariant, PTL
=============================================================================
