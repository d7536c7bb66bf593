------------------------ MODULE ChannelCatalog_proofs ------------------------
(***************************************************************************)
(* What ChannelCatalog keeps, for any devices, channels and objects and    *)
(* with any number of pollers that handle REGISTERs and catalogs at once:  *)
(* types, that no channel is lost, and that no SSRC names two channels.    *)
(***************************************************************************)
EXTENDS ChannelCatalog, TLAPS

\* A thread at work has a Device object in hand, and an item with its Channel where
\* it is about to store one.
HandInv ==
  \A t \in Threads :
    /\ pc[t] # "idle" => dev[t] # None
    /\ dev[t] # None => deviceId[dev[t]] # None
    /\ IF pc[t] \in {"insert", "save", "number"}
         THEN item[t] # None /\ chan[t] # None
         ELSE item[t] = None
    /\ pc[t] = "insert" => ~found[t]
    /\ t \in Workers => pc[t] \in {"idle", "save", "number"} /\ (pc[t] = "save" => found[t])

TableInv == \A d \in Devices : table[d] # None => deviceId[table[d]] = d

\* A row has both its columns.
RowInv == \A c \in Channels : row[c] = None <=> rowDevice[c] = None

SavedInv == TypeOK /\ HandInv /\ TableInv /\ RowInv /\ KnownChannelsAreSaved

-----------------------------------------------------------------------------
(* Initial states *)

LEMMA InitSavedInv == Init => SavedInv
<1> SUFFICES ASSUME Init PROVE SavedInv
  OBVIOUS
<1> USE CatalogAssumption
<1>1. TypeOK
  <2>1. index \in SSRCs
    BY DEF Init, SSRCs
  <2>2. again \in BOOLEAN
    BY Zenon DEF Init
  <2>3. QED
    BY <2>1, <2>2 DEF Init, TypeOK, PerThread, NoChannels, Labels
<1>2. HandInv
  BY DEF Init, HandInv, PerThread
<1>3. TableInv /\ RowInv /\ KnownChannelsAreSaved
  BY DEF Init, TableInv, RowInv, KnownChannelsAreSaved, NoChannels
<1>4. QED
  BY <1>1, <1>2, <1>3 DEF SavedInv

-----------------------------------------------------------------------------
(* Type correctness *)

LEMMA NextIndexType == ASSUME TypeOK PROVE NextIndex \in SSRCs
  BY CatalogAssumption DEF TypeOK, NextIndex, SSRCs

LEMMA GenerateType == ASSUME TypeOK, GenerateSSRC PROVE index' \in SSRCs /\ again' \in BOOLEAN
  BY NextIndexType DEF GenerateSSRC, TypeOK

\* What a thread has in hand when it stores a channel.
LEMMA InHand ==
  ASSUME SavedInv, NEW t \in Threads
  PROVE  /\ pc[t] # "idle" => dev[t] \in Objects /\ deviceId[dev[t]] \in Devices
         /\ pc[t] \in {"insert", "save", "number"} =>
              item[t] \in Channels /\ chan[t] \in SSRCs
  BY DEF SavedInv, HandInv, TypeOK

LEMMA RegisterTypeOK ==
  ASSUME SavedInv, NEW p \in Pollers, RegisterSteps(p)
  PROVE  TypeOK'
<1> USE DEF memory, rows, control, Labels, Threads, Goto
<1>1. CASE Register(p)
  <2>1. NoChannels \in [Channels -> SSRCs \cup {None}]
    BY DEF NoChannels
  <2>2. QED
    BY <1>1, <2>1 DEF Register, TypeOK, SavedInv
<1>2. CASE AddDevice(p)
  <2>1. dev[p] \in Objects /\ deviceId[dev[p]] \in Devices
    BY <1>2, InHand DEF AddDevice
  <2>2. QED
    BY <1>2, <2>1 DEF AddDevice, TypeOK, SavedInv
<1>3. CASE AddOrUpdateDevice(p)
  BY <1>3 DEF AddOrUpdateDevice, TypeOK, SavedInv
<1>4. CASE Refuse(p)
  BY <1>4 DEF Refuse, TypeOK, SavedInv
<1>5. QED
  BY <1>1, <1>2, <1>3, <1>4 DEF RegisterSteps

LEMMA SavingType ==
  ASSUME SavedInv, NEW t \in Threads, pc[t] = "save", AddOrUpdateChannel(t)
  PROVE  /\ row' \in [Channels -> SSRCs \cup {None}]
         /\ rowDevice' \in [Channels -> Devices \cup {None}]
<1>1. item[t] \in Channels /\ chan[t] \in SSRCs /\ deviceId[dev[t]] \in Devices
  BY InHand
<1>2. QED
  BY <1>1 DEF AddOrUpdateChannel, SavedInv, TypeOK

LEMMA CatalogTypeOK ==
  ASSUME SavedInv, NEW p \in Pollers, CatalogSteps(p)
  PROVE  TypeOK'
<1> USE DEF memory, rows, control, Labels, Threads, Goto
<1>0. TypeOK
  BY DEF SavedInv
<1>1. CASE Catalog(p)
  BY <1>0, <1>1 DEF Catalog, TypeOK
<1>2. CASE Answer(p)
  BY <1>0, <1>2 DEF Answer, TypeOK
<1>3. CASE InsertChannel(p)
  <2>1. dev[p] \in Objects /\ item[p] \in Channels /\ chan[p] \in SSRCs
    BY <1>3, InHand DEF InsertChannel
  <2>2. QED
    BY <1>0, <1>3, <2>1 DEF InsertChannel, TypeOK
<1>4. CASE SaveItem(p)
  <2>1. /\ row' \in [Channels -> SSRCs \cup {None}]
        /\ rowDevice' \in [Channels -> Devices \cup {None}]
    BY <1>4, SavingType DEF SaveItem
  <2>2. QED
    BY <1>0, <1>4, <2>1 DEF SaveItem, Done, TypeOK
<1>5. ASSUME NEW c \in Channels, KnownItem(p, c) PROVE TypeOK'
  <2>1. dev[p] \in Objects
    BY <1>5, InHand DEF KnownItem, Take
  <2>2. QED
    BY <1>0, <1>5, <2>1 DEF KnownItem, Take, TypeOK
<1>6. ASSUME NEW c \in Channels, NewItem(p, c) PROVE TypeOK'
  <2>1. index' \in SSRCs /\ again' \in BOOLEAN
    BY <1>0, <1>6, GenerateType DEF NewItem
  <2>2. QED
    BY <1>0, <1>6, <2>1 DEF NewItem, Take, TypeOK
<1>7. QED
  BY <1>1, <1>2, <1>3, <1>4, <1>5, <1>6 DEF CatalogSteps

\* The Channel that a request finds is in the map of the device's object.
LEMMA Found ==
  ASSUME SavedInv, NEW d \in Devices, NEW c \in Channels, Known(d, c) # None
  PROVE  /\ table[d] \in Objects /\ deviceId[table[d]] = d
         /\ Known(d, c) = channels[table[d]][c]
         /\ Known(d, c) \in SSRCs
<1>1. table[d] # None
  BY DEF Known
<1>2. QED
  BY <1>1 DEF SavedInv, TypeOK, TableInv, Known

LEMMA WorkerTypeOK ==
  ASSUME SavedInv, NEW w \in Workers,
         FindChannel(w) \/ SaveNickname(w) \/ NumberPlayback(w)
  PROVE  TypeOK'
<1> USE DEF memory, rows, control, Labels, Threads, Goto
<1>0. TypeOK
  BY DEF SavedInv
<1>1. CASE FindChannel(w)
  <2>1. PICK d \in Devices, c \in Channels :
          /\ Known(d, c) # None
          /\ dev' = [dev EXCEPT ![w] = table[d]]
          /\ item' = [item EXCEPT ![w] = c]
          /\ chan' = [chan EXCEPT ![w] = Known(d, c)]
    BY <1>1 DEF FindChannel
  <2>2. Known(d, c) \in SSRCs /\ table[d] \in Objects
    BY <2>1, Found
  <2>3. QED
    BY <1>0, <1>1, <2>1, <2>2 DEF FindChannel, TypeOK
<1>2. CASE SaveNickname(w)
  <2>1. /\ row' \in [Channels -> SSRCs \cup {None}]
        /\ rowDevice' \in [Channels -> Devices \cup {None}]
    BY <1>0, <1>2, SavingType DEF SaveNickname, TypeOK
  <2>2. QED
    BY <1>0, <1>2, <2>1 DEF SaveNickname, Done, TypeOK
<1>3. CASE NumberPlayback(w)
  <2>1. index' \in SSRCs /\ again' \in BOOLEAN
    BY <1>0, <1>3, GenerateType DEF NumberPlayback
  <2>2. QED
    BY <1>0, <1>3, <2>1 DEF NumberPlayback, Done, TypeOK
<1>4. QED
  BY <1>1, <1>2, <1>3

LEMMA RestartFacts ==
  ASSUME Restart
  PROVE  \E loaded \in [Devices -> Objects \cup {None}] :
         \E id \in [Objects -> Devices \cup {None}] :
           /\ \A d \in Devices : \A o \in Objects : loaded[d] = o <=> id[o] = d
           /\ table' = loaded
           /\ deviceId' = id
           /\ channels' = [o \in Objects |-> [c \in Channels |->
                IF id[o] # None /\ rowDevice[c] = id[o] THEN row[c] ELSE None]]
  BY DEF Restart

LEMMA RestartTypeOK ==
  ASSUME TypeOK, Restart
  PROVE  TypeOK'
<1> USE CatalogAssumption DEF rows, Labels, PerThread
<1>1. index' \in SSRCs /\ again' \in BOOLEAN
  BY DEF Restart, SSRCs
<1>2. pc' \in [Threads -> Labels] /\ dev' \in [Threads -> Objects \cup {None}]
      /\ item' \in [Threads -> Channels \cup {None}]
      /\ chan' \in [Threads -> SSRCs \cup {None}]
      /\ todo' \in [Threads -> SUBSET Channels] /\ found' \in [Threads -> BOOLEAN]
  BY DEF Restart
<1>3. table' \in [Devices -> Objects \cup {None}]
      /\ deviceId' \in [Objects -> Devices \cup {None}]
      /\ channels' \in [Objects -> [Channels -> SSRCs \cup {None}]]
  BY RestartFacts DEF TypeOK
<1>4. saved' \in [Devices -> BOOLEAN] /\ row' \in [Channels -> SSRCs \cup {None}]
      /\ rowDevice' \in [Channels -> Devices \cup {None}]
      /\ restarts' \in 0 .. MaxRestarts
  BY DEF Restart, TypeOK
<1>5. QED
  BY <1>1, <1>2, <1>3, <1>4 DEF TypeOK

LEMMA NextTypeOK ==
  ASSUME SavedInv, [Next]_vars
  PROVE  TypeOK'
<1>1. CASE UNCHANGED vars
  BY <1>1 DEF vars, memory, rows, control, SavedInv, TypeOK
<1>2. CASE Next
  BY <1>2, RegisterTypeOK, CatalogTypeOK, WorkerTypeOK, RestartTypeOK DEF Next, SavedInv
<1>3. QED
  BY <1>1, <1>2

-----------------------------------------------------------------------------
(* Objects in hand and in the table *)

LEMMA NextHandInv ==
  ASSUME SavedInv, [Next]_vars
  PROVE  HandInv'
<1> USE CatalogAssumption DEF memory, rows, control, Threads, Goto, SSRCs
<1>0. TypeOK /\ HandInv
  BY DEF SavedInv
<1>1. CASE UNCHANGED vars \/ \E p \in Pollers : Refuse(p)
  <2>1. UNCHANGED <<control, deviceId>>
    BY <1>1 DEF vars, Refuse
  <2>2. QED
    BY <1>0, <2>1 DEF HandInv
<1>2. ASSUME NEW p \in Pollers, Register(p) PROVE HandInv'
  <2>1. PICK d \in Devices, o \in Objects \ LiveObjects :
          /\ deviceId' = [deviceId EXCEPT ![o] = d]
          /\ dev' = [dev EXCEPT ![p] = o]
    BY <1>2 DEF Register
  <2>2. \A t \in Threads : dev[t] # None =>
          dev[t] # o /\ dev[t] \in Objects /\ deviceId'[dev[t]] = deviceId[dev[t]]
    BY <1>0, <2>1 DEF LiveObjects, TypeOK
  <2>3. deviceId'[o] = d /\ d # None /\ o # None
    BY <1>0, <2>1 DEF TypeOK
  <2>4. QED
    BY <1>0, <1>2, <2>1, <2>2, <2>3 DEF Register, HandInv, TypeOK
<1>3. ASSUME NEW p \in Pollers, AddDevice(p) PROVE HandInv'
  BY <1>0, <1>3 DEF AddDevice, HandInv, TypeOK
<1>4. ASSUME NEW p \in Pollers, AddOrUpdateDevice(p) PROVE HandInv'
  BY <1>0, <1>4 DEF AddOrUpdateDevice, HandInv, TypeOK
<1>5. ASSUME NEW p \in Pollers, Catalog(p) PROVE HandInv'
  <2>1. PICK d \in Devices : table[d] # None /\ dev' = [dev EXCEPT ![p] = table[d]]
    BY <1>5 DEF Catalog
  <2>2. deviceId[table[d]] # None
    BY <2>1 DEF SavedInv, TableInv
  <2>3. QED
    BY <1>0, <1>5, <2>1, <2>2 DEF Catalog, HandInv, TypeOK
<1>6. ASSUME NEW p \in Pollers, Answer(p) PROVE HandInv'
  BY <1>0, <1>6 DEF Answer, HandInv, TypeOK
<1>7. ASSUME NEW p \in Pollers, InsertChannel(p) PROVE HandInv'
  BY <1>0, <1>7 DEF InsertChannel, HandInv, TypeOK
<1>8. ASSUME NEW p \in Pollers, SaveItem(p) PROVE HandInv'
  BY <1>0, <1>8 DEF SaveItem, Done, HandInv, TypeOK
<1>9. ASSUME NEW p \in Pollers, NEW c \in Channels, KnownItem(p, c) PROVE HandInv'
  BY <1>0, <1>9 DEF KnownItem, Take, HandInv, TypeOK
<1>10. ASSUME NEW p \in Pollers, NEW c \in Channels, NewItem(p, c) PROVE HandInv'
  BY <1>0, <1>10 DEF NewItem, Take, HandInv, TypeOK
<1>11. ASSUME NEW w \in Workers, FindChannel(w) PROVE HandInv'
  <2>1. PICK d \in Devices, c \in Channels :
          /\ Known(d, c) # None
          /\ dev' = [dev EXCEPT ![w] = table[d]]
          /\ item' = [item EXCEPT ![w] = c]
          /\ chan' = [chan EXCEPT ![w] = Known(d, c)]
    BY <1>11 DEF FindChannel
  <2>2. table[d] # None /\ deviceId[table[d]] # None
    BY <2>1, Found
  <2>3. QED
    BY <1>0, <1>11, <2>1, <2>2 DEF FindChannel, HandInv, TypeOK
<1>12. ASSUME NEW w \in Workers, SaveNickname(w) \/ NumberPlayback(w) PROVE HandInv'
  BY <1>0, <1>12 DEF SaveNickname, NumberPlayback, Done, HandInv, TypeOK
<1>13. CASE Restart
  BY <1>13 DEF Restart, PerThread, HandInv
<1>14. QED
  BY <1>1, <1>2, <1>3, <1>4, <1>5, <1>6, <1>7, <1>8, <1>9, <1>10, <1>11, <1>12, <1>13
     DEF Next, RegisterSteps, CatalogSteps

LEMMA NextTableInv ==
  ASSUME SavedInv, [Next]_vars
  PROVE  TableInv'
<1> USE CatalogAssumption DEF memory, rows, control
<1>0. TypeOK /\ TableInv
  BY DEF SavedInv
<1>1. ASSUME NEW p \in Pollers, Register(p) PROVE TableInv'
  <2>1. PICK o \in Objects \ LiveObjects : \E d \in Devices :
          deviceId' = [deviceId EXCEPT ![o] = d]
    BY <1>1 DEF Register
  <2>2. \A e \in Devices : table[e] # None => table[e] # o
    BY <2>1 DEF LiveObjects
  <2>3. QED
    BY <1>0, <1>1, <2>1, <2>2 DEF Register, TableInv, TypeOK
<1>2. ASSUME NEW p \in Pollers, AddDevice(p) PROVE TableInv'
  <2>1. dev[p] \in Objects /\ deviceId[dev[p]] \in Devices
    BY <1>2, InHand DEF AddDevice, Threads
  <2>2. QED
    BY <1>0, <1>2, <2>1 DEF AddDevice, TableInv, TypeOK
<1>3. ASSUME NEW p \in Pollers, Refuse(p) PROVE TableInv'
  BY <1>0, <1>3 DEF Refuse, TableInv, TypeOK
<1>4. CASE Restart
  BY <1>4, RestartFacts DEF TableInv
<1>5. CASE UNCHANGED <<table, deviceId>>
  BY <1>0, <1>5 DEF TableInv
<1>6. QED
  BY <1>1, <1>2, <1>3, <1>4, <1>5
     DEF Next, RegisterSteps, CatalogSteps, vars, AddOrUpdateDevice, Catalog, Answer,
         InsertChannel, SaveItem, KnownItem, NewItem, FindChannel, SaveNickname,
         NumberPlayback

-----------------------------------------------------------------------------
(* No channel is lost *)

\* Neither INSERT nor UPDATE takes a row away, and the INSERT of a channel leaves
\* it with one.
LEMMA SavingKeepsRows ==
  ASSUME SavedInv, NEW t \in Threads, pc[t] = "save", AddOrUpdateChannel(t)
  PROVE  /\ RowInv'
         /\ \A c \in Channels : row[c] # None => row'[c] # None
         /\ ~found[t] => row'[item[t]] # None
<1>1. item[t] \in Channels /\ chan[t] # None /\ deviceId[dev[t]] \in Devices
      /\ deviceId[dev[t]] # None
  BY InHand, CatalogAssumption DEF SSRCs
<1>2. QED
  BY <1>1 DEF AddOrUpdateChannel, SavedInv, TypeOK, RowInv

LEMMA NextRowInv ==
  ASSUME SavedInv, [Next]_vars
  PROVE  RowInv'
<1> USE DEF rows, Threads
<1>1. ASSUME NEW t \in Threads, SaveItem(t) \/ SaveNickname(t), AddOrUpdateChannel(t)
      PROVE  RowInv'
  BY <1>1, SavingKeepsRows DEF SaveItem, SaveNickname
<1>2. CASE UNCHANGED <<row, rowDevice>>
  BY <1>2 DEF SavedInv, RowInv
<1>3. QED
  BY <1>1, <1>2
     DEF Next, RegisterSteps, CatalogSteps, vars, Register, AddDevice, AddOrUpdateDevice,
         Refuse, Catalog, Answer, InsertChannel, SaveItem, KnownItem, NewItem, FindChannel,
         SaveNickname, NumberPlayback, Restart

LEMMA NextKnownChannelsAreSaved ==
  ASSUME SavedInv, [Next]_vars
  PROVE  KnownChannelsAreSaved'
<1> USE DEF memory, rows, control, Threads, Goto
<1>0. TypeOK /\ KnownChannelsAreSaved /\ HandInv
  BY DEF SavedInv
<1> DEFINE Safe(c) == row[c] # None \/ \E t \in Threads : Inserting(t, c)
<1>1. ASSUME \A o \in Objects : \A c \in Channels :
               channels'[o][c] # None => channels[o][c] # None \/ Safe(c)',
             \A c \in Channels : Safe(c) => Safe(c)'
      PROVE  KnownChannelsAreSaved'
  BY <1>0, <1>1 DEF KnownChannelsAreSaved
<1>2. CASE UNCHANGED vars \/ \E p \in Pollers : Refuse(p)
  BY <1>0, <1>2 DEF vars, Refuse, KnownChannelsAreSaved, Inserting
<1>3. ASSUME NEW p \in Pollers, RegisterSteps(p), ~Refuse(p)
      PROVE  KnownChannelsAreSaved'
  <2>1. UNCHANGED <<row, item, found>> /\ pc[p] \notin {"insert", "save"}
    BY <1>3 DEF RegisterSteps, Register, AddDevice, AddOrUpdateDevice
  <2>2. \A t \in Threads \ {p} : pc'[t] = pc[t]
    BY <1>0, <1>3 DEF RegisterSteps, Register, AddDevice, AddOrUpdateDevice, TypeOK
  <2>3. \A c \in Channels : Safe(c) => Safe(c)'
    BY <2>1, <2>2 DEF Inserting
  <2>4. \A o \in Objects : \A c \in Channels :
          channels'[o][c] # None => channels[o][c] # None
    BY <1>0, <1>3 DEF RegisterSteps, Register, AddDevice, AddOrUpdateDevice, NoChannels,
       TypeOK
  <2>5. QED
    BY <1>1, <2>3, <2>4
<1>4. ASSUME NEW p \in Pollers, Catalog(p) \/ Answer(p) PROVE KnownChannelsAreSaved'
  BY <1>0, <1>4 DEF Catalog, Answer, KnownChannelsAreSaved, Inserting, TypeOK
<1>5. ASSUME NEW p \in Pollers, InsertChannel(p) PROVE KnownChannelsAreSaved'
  <2>1. \A c \in Channels : Safe(c) => Safe(c)'
    BY <1>0, <1>5 DEF InsertChannel, Inserting, TypeOK
  <2>2. Inserting(p, item[p])'
    BY <1>0, <1>5 DEF InsertChannel, Inserting, HandInv, TypeOK
  <2>3. \A o \in Objects : \A c \in Channels :
          channels'[o][c] # None => channels[o][c] # None \/ c = item[p]
    BY <1>0, <1>5 DEF InsertChannel, TypeOK
  <2>4. item'[p] = item[p]
    BY <1>5 DEF InsertChannel
  <2>5. QED
    BY <1>0, <2>1, <2>2, <2>3, <2>4 DEF KnownChannelsAreSaved, Inserting
<1>6. ASSUME NEW t \in Threads, SaveItem(t) \/ (t \in Workers /\ SaveNickname(t))
      PROVE  KnownChannelsAreSaved'
  <2>1. \/ /\ \A c \in Channels : row[c] # None => row'[c] # None
           /\ ~found[t] => row'[item[t]] # None
        \/ row' = row /\ (t \in Workers /\ found[t])
    BY <1>0, <1>6, SavingKeepsRows DEF SaveItem, SaveNickname, Unnamed, HandInv
  <2>2. \A u \in Threads \ {t} :
          pc'[u] = pc[u] /\ item'[u] = item[u] /\ found'[u] = found[u]
    BY <1>0, <1>6 DEF SaveItem, SaveNickname, Done, TypeOK
  <2>3. \A c \in Channels : Safe(c) => Safe(c)'
    BY <2>1, <2>2 DEF Inserting
  <2>4. channels' = channels
    BY <1>6 DEF SaveItem, SaveNickname
  <2>5. QED
    BY <1>1, <2>3, <2>4
<1>7. ASSUME NEW p \in Pollers, NEW c \in Channels, KnownItem(p, c) \/ NewItem(p, c)
      PROVE  KnownChannelsAreSaved'
  <2>1. UNCHANGED <<channels, row>> /\ pc[p] = "each"
    BY <1>7 DEF KnownItem, NewItem, Take
  <2>2. \A u \in Threads \ {p} :
          pc'[u] = pc[u] /\ item'[u] = item[u] /\ found'[u] = found[u]
    BY <1>0, <1>7 DEF KnownItem, NewItem, Take, TypeOK
  <2>3. \A e \in Channels : Safe(e) => Safe(e)'
    BY <2>1, <2>2 DEF Inserting
  <2>4. QED
    BY <1>1, <2>1, <2>3
<1>8. ASSUME NEW w \in Workers, FindChannel(w) \/ NumberPlayback(w)
      PROVE  KnownChannelsAreSaved'
  <2>1. UNCHANGED <<channels, row>> /\ pc[w] \notin {"insert", "save"}
    BY <1>8 DEF FindChannel, NumberPlayback
  <2>2. \A u \in Threads \ {w} :
          pc'[u] = pc[u] /\ item'[u] = item[u] /\ found'[u] = found[u]
    BY <1>0, <1>8 DEF FindChannel, NumberPlayback, Done, TypeOK
  <2>3. \A e \in Channels : Safe(e) => Safe(e)'
    BY <2>1, <2>2 DEF Inserting
  <2>4. QED
    BY <1>1, <2>1, <2>3
<1>9. CASE Restart
  <2>1. row' = row
    BY <1>9 DEF Restart
  <2>2. QED
    BY <1>9, <2>1, RestartFacts DEF KnownChannelsAreSaved
<1>10. QED
  BY <1>2, <1>3, <1>4, <1>5, <1>6, <1>7, <1>8, <1>9 DEF Next, CatalogSteps

LEMMA NextSavedInv ==
  ASSUME SavedInv, [Next]_vars
  PROVE  SavedInv'
  BY NextTypeOK, NextHandInv, NextTableInv, NextRowInv, NextKnownChannelsAreSaved
     DEF SavedInv

LEMMA AlwaysSavedInv == Spec => []SavedInv
  BY InitSavedInv, NextSavedInv, PTL DEF Spec

\* Every variable keeps its type; the SSRC counter its 16 bits.
THEOREM CatalogTypeCorrect == Spec => []TypeOK
<1>1. SavedInv => TypeOK
  BY DEF SavedInv
<1>2. QED
  BY <1>1, AlwaysSavedInv, PTL

\* However many pollers handle REGISTERs and catalogs of a device at once, and
\* whatever devices are refused or announce the same channels meanwhile, a channel
\* in memory has a row or is about to get it.
THEOREM ChannelsAreSaved == Spec => []KnownChannelsAreSaved
<1>1. SavedInv => KnownChannelsAreSaved
  BY DEF SavedInv
<1>2. QED
  BY <1>1, AlwaysSavedInv, PTL

-----------------------------------------------------------------------------
(* No SSRC names two channels *)

\* An SSRC is that of a device's channel in a map, in a row or in the hands of a
\* thread.
Names(s, d, c) ==
  \/ \E o \in Objects : deviceId[o] = d /\ channels[o][c] = s
  \/ row[c] = s /\ rowDevice[c] = d
  \/ \E t \in Threads : /\ item[t] = c /\ chan[t] = s
                        /\ dev[t] # None /\ deviceId[dev[t]] = d

\* Until the counter begins again, those in use are below it.
NameInv ==
  ~again =>
    \A s \in SSRCs : \A d \in Devices : \A c \in Channels : Names(s, d, c) =>
      /\ s < index
      /\ \A f \in Devices : \A e \in Channels : Names(s, f, e) => f = d /\ e = c

\* What a step leaves with a name had it before, or just got it from the counter.
Renamed(d, c) ==
  \A s \in SSRCs : \A f \in Devices : \A e \in Channels : Names(s, f, e)' =>
    Names(s, f, e) \/ (s = index /\ f = d /\ e = c)

NoNewName ==
  \A s \in SSRCs : \A d \in Devices : \A c \in Channels :
    Names(s, d, c)' => Names(s, d, c)

LEMMA NewName ==
  ASSUME SavedInv, NEW p \in Pollers, NEW c \in Channels, NewItem(p, c)
  PROVE  Renamed(deviceId[dev[p]], c)
<1>1. /\ UNCHANGED <<deviceId, channels, row, rowDevice, dev>>
      /\ item' = [item EXCEPT ![p] = c] /\ chan' = [chan EXCEPT ![p] = index]
  BY DEF NewItem, Take, rows
<1>2. QED
  BY <1>1 DEF Renamed, Names, SavedInv, TypeOK, Threads

LEMMA RegisterNames ==
  ASSUME SavedInv, NEW p \in Pollers, RegisterSteps(p)
  PROVE  NoNewName
<1> USE CatalogAssumption DEF memory, rows, control, Threads, SSRCs
<1>0. TypeOK /\ HandInv
  BY DEF SavedInv
<1>1. CASE Register(p)
  <2>1. PICK d \in Devices, o \in Objects \ LiveObjects :
          /\ deviceId' = [deviceId EXCEPT ![o] = d]
          /\ channels' = [channels EXCEPT ![o] = NoChannels]
          /\ dev' = [dev EXCEPT ![p] = o]
    BY <1>1 DEF Register
  <2>2. UNCHANGED <<row, rowDevice, item, chan>> /\ item[p] = None
    BY <1>0, <1>1 DEF Register, HandInv
  <2>3. \A t \in Threads : dev[t] # None => dev[t] # o /\ dev[t] \in Objects
    BY <1>0, <2>1 DEF LiveObjects, TypeOK
  <2>4. /\ \A u \in Objects : u # o => deviceId'[u] = deviceId[u] /\ channels'[u] = channels[u]
        /\ \A c \in Channels : channels'[o][c] = None
    BY <1>0, <2>1 DEF TypeOK, NoChannels
  <2>5. \A t \in Threads : t # p => dev'[t] = dev[t]
    BY <1>0, <2>1 DEF TypeOK
  <2>6. QED
    BY <2>2, <2>3, <2>4, <2>5 DEF NoNewName, Names
<1>2. CASE AddDevice(p) \/ Refuse(p)
  BY <1>2 DEF AddDevice, Refuse, NoNewName, Names
<1>3. CASE AddOrUpdateDevice(p)
  BY <1>0, <1>3 DEF AddOrUpdateDevice, NoNewName, Names, TypeOK
<1>4. QED
  BY <1>1, <1>2, <1>3 DEF RegisterSteps

\* A channel is saved under the device it is of.
LEMMA SavingNames ==
  ASSUME SavedInv, NEW t \in Threads, NEW label, pc[t] = "save", AddOrUpdateChannel(t),
         Done(t, label), dev' \in {dev, [dev EXCEPT ![t] = None]},
         UNCHANGED <<deviceId, channels>>
  PROVE  NoNewName
<1>1. /\ item[t] \in Channels /\ chan[t] \in SSRCs /\ dev[t] \in Objects
      /\ deviceId[dev[t]] \in Devices /\ dev[t] # None
  BY InHand, CatalogAssumption
<1>2. \A c \in Channels : \/ row'[c] = row[c] /\ rowDevice'[c] = rowDevice[c]
                          \/ /\ c = item[t] /\ row'[c] = chan[t]
                             /\ rowDevice'[c] = deviceId[dev[t]]
  BY <1>1 DEF AddOrUpdateChannel, SavedInv, TypeOK
<1>3. \A u \in Threads : item'[u] \in Channels =>
        item'[u] = item[u] /\ chan'[u] = chan[u] /\ dev'[u] = dev[u]
  BY CatalogAssumption DEF Done, SavedInv, TypeOK
<1>4. QED
  BY <1>1, <1>2, <1>3 DEF NoNewName, Names

LEMMA CatalogNames ==
  ASSUME SavedInv, NEW p \in Pollers, CatalogSteps(p),
         ~ \E c \in Channels : NewItem(p, c)
  PROVE  NoNewName
<1> USE CatalogAssumption DEF memory, rows, control, Threads, SSRCs
<1>0. TypeOK /\ HandInv
  BY DEF SavedInv
<1>1. CASE Catalog(p) \/ Answer(p)
  <2>1. UNCHANGED <<deviceId, channels, row, rowDevice, item, chan>> /\ item[p] = None
    BY <1>0, <1>1 DEF Catalog, Answer, HandInv
  <2>2. \A t \in Threads : t # p => dev'[t] = dev[t]
    BY <1>0, <1>1 DEF Catalog, Answer, TypeOK
  <2>3. QED
    BY <2>1, <2>2 DEF NoNewName, Names
<1>2. CASE InsertChannel(p)
  <2>1. dev[p] \in Objects /\ item[p] \in Channels /\ dev[p] # None
    BY <1>2, InHand DEF InsertChannel
  <2>2. \A o \in Objects : \A c \in Channels :
          \/ channels'[o][c] = channels[o][c]
          \/ o = dev[p] /\ c = item[p] /\ channels'[o][c] = chan[p]
    BY <1>0, <1>2, <2>1 DEF InsertChannel, TypeOK
  <2>3. UNCHANGED <<deviceId, row, rowDevice, item, chan, dev>>
    BY <1>2 DEF InsertChannel
  <2>4. QED
    BY <2>1, <2>2, <2>3 DEF NoNewName, Names
<1>3. CASE SaveItem(p)
  BY <1>3, SavingNames DEF SaveItem
<1>4. ASSUME NEW c \in Channels, KnownItem(p, c)
      PROVE  NoNewName
  <2>1. dev[p] \in Objects
    BY <1>4, InHand DEF KnownItem, Take
  <2>2. /\ UNCHANGED <<deviceId, channels, row, rowDevice, dev>>
        /\ \A t \in Threads : t # p => item'[t] = item[t] /\ chan'[t] = chan[t]
        /\ item'[p] = c /\ chan'[p] = channels[dev[p]][c]
    BY <1>0, <1>4 DEF KnownItem, Take, TypeOK
  <2>3. QED
    BY <2>1, <2>2 DEF NoNewName, Names
<1>5. QED
  BY <1>1, <1>2, <1>3, <1>4 DEF CatalogSteps

LEMMA WorkerNames ==
  ASSUME SavedInv, NEW w \in Workers,
         FindChannel(w) \/ SaveNickname(w) \/ NumberPlayback(w)
  PROVE  NoNewName
<1> USE DEF memory, rows, Threads
<1>0. TypeOK
  BY DEF SavedInv
<1>1. CASE FindChannel(w)
  <2>1. PICK d \in Devices, c \in Channels :
          /\ Known(d, c) # None
          /\ dev' = [dev EXCEPT ![w] = table[d]]
          /\ item' = [item EXCEPT ![w] = c]
          /\ chan' = [chan EXCEPT ![w] = Known(d, c)]
    BY <1>1 DEF FindChannel
  <2>2. /\ table[d] \in Objects /\ deviceId[table[d]] = d
        /\ Known(d, c) = channels[table[d]][c]
    BY <2>1, Found
  <2>3. /\ UNCHANGED <<deviceId, channels, row, rowDevice>>
        /\ \A t \in Threads : t # w =>
             item'[t] = item[t] /\ chan'[t] = chan[t] /\ dev'[t] = dev[t]
        /\ item'[w] = c /\ chan'[w] = channels[table[d]][c] /\ dev'[w] = table[d]
    BY <1>0, <1>1, <2>1, <2>2 DEF FindChannel, TypeOK
  <2>4. QED
    BY <2>2, <2>3 DEF NoNewName, Names
<1>2. CASE SaveNickname(w) /\ AddOrUpdateChannel(w)
  BY <1>2, SavingNames DEF SaveNickname
<1>3. CASE \/ SaveNickname(w) /\ UNCHANGED <<row, rowDevice>>
           \/ NumberPlayback(w)
  <2>1. UNCHANGED <<deviceId, channels, row, rowDevice>>
    BY <1>3 DEF SaveNickname, NumberPlayback
  <2>2. \A t \in Threads : item'[t] \in Channels =>
          item'[t] = item[t] /\ chan'[t] = chan[t] /\ dev'[t] = dev[t]
    BY <1>0, <1>3, CatalogAssumption DEF SaveNickname, NumberPlayback, Done, TypeOK
  <2>3. QED
    BY <2>1, <2>2 DEF NoNewName, Names
<1>4. QED
  BY <1>1, <1>2, <1>3 DEF SaveNickname

\* No other step makes a name.
LEMMA SameNames ==
  ASSUME SavedInv, [Next]_vars, ~Restart,
         ~\E p \in Pollers : \E c \in Channels : NewItem(p, c)
  PROVE  NoNewName
<1>1. CASE UNCHANGED vars
  BY <1>1 DEF vars, memory, rows, control, NoNewName, Names
<1>2. CASE Next
  BY <1>2, RegisterNames, CatalogNames, WorkerNames DEF Next
<1>3. QED
  BY <1>1, <1>2

\* As long as the counter does not begin again, it counts.
LEMMA Counts ==
  ASSUME TypeOK, GenerateSSRC, ~again'
  PROVE  ~again /\ index' = index + 1
<1>1. ~again /\ NextIndex # 0
  BY DEF GenerateSSRC, TypeOK
<1>2. index \in Nat /\ SsrcRange \in Nat \ {0} /\ index + 1 <= SsrcRange
  BY CatalogAssumption DEF TypeOK, SSRCs
<1>3. CASE index + 1 = SsrcRange
  <2>1. SsrcRange % SsrcRange = 0
    BY <1>2
  <2>2. QED
    BY <1>1, <1>3, <2>1 DEF NextIndex
<1>4. CASE index + 1 < SsrcRange
  <2>1. (index + 1) % SsrcRange = index + 1
    BY <1>2, <1>4
  <2>2. QED
    BY <1>1, <2>1 DEF GenerateSSRC, NextIndex
<1>5. QED
  BY <1>2, <1>3, <1>4

LEMMA NextNameInv ==
  ASSUME SavedInv, NameInv, [Next]_vars
  PROVE  NameInv'
<1>1. SUFFICES ASSUME ~again'
               PROVE  NameInv'
  BY DEF NameInv
<1>2. ~again /\ ~Restart /\ index \in SSRCs /\ (index' = index \/ index' = index + 1)
  <2>1. ~Restart
    BY <1>1 DEF Restart
  <2>2. CASE GenerateSSRC
    BY <1>1, <2>1, <2>2, Counts DEF SavedInv, TypeOK
  <2>3. CASE UNCHANGED <<index, again>>
    BY <1>1, <2>1, <2>3 DEF SavedInv, TypeOK
  <2>4. QED
    BY <2>1, <2>2, <2>3
       DEF Next, RegisterSteps, CatalogSteps, vars, memory, Register, AddDevice,
           AddOrUpdateDevice, Refuse, Catalog, Answer, KnownItem, NewItem, InsertChannel,
           SaveItem, FindChannel, SaveNickname, NumberPlayback
<1>3. \A s \in SSRCs : s \in Nat
  BY DEF SSRCs
<1>4. ASSUME NEW p \in Pollers, NEW c \in Channels, NewItem(p, c)
      PROVE  NameInv'
  <2>1. Renamed(deviceId[dev[p]], c)
    BY <1>4, NewName
  <2>2. index' = index + 1
    BY <1>1, <1>4, Counts DEF NewItem, SavedInv
  <2>3. QED
    BY <1>2, <1>3, <2>1, <2>2 DEF NameInv, Renamed
<1>5. CASE ~\E p \in Pollers : \E c \in Channels : NewItem(p, c)
  <2>1. NoNewName
    BY <1>2, <1>5, SameNames
  <2>2. QED
    BY <1>2, <1>3, <2>1 DEF NameInv, NoNewName
<1>6. QED
  BY <1>4, <1>5

\* GenerateSSRC is one step of an atomic counter: however many pollers handle catalogs,
\* of however many devices, no two channels get one SSRC, nor do their rows, until the
\* counter wraps or the process starts again.
THEOREM SSRCsAreUnique == Spec => []UniqueSSRC
<1>1. Init => NameInv
  <2>1. SUFFICES ASSUME Init, NEW s \in SSRCs, NEW d \in Devices, NEW c \in Channels
                 PROVE  ~Names(s, d, c)
    BY DEF NameInv
  <2>2. s # None
    BY CatalogAssumption DEF SSRCs
  <2>3. QED
    BY <2>1, <2>2 DEF Init, Names, NoChannels, PerThread
<1>2. SavedInv /\ NameInv => UniqueSSRC
  <2>1. SUFFICES ASSUME SavedInv, NameInv, ~again, NEW c \in Channels, NEW e \in Channels
                 PROVE  /\ \A d, f \in Devices : Known(d, c) # None /\ Known(d, c) = Known(f, e)
                             => d = f /\ c = e
                        /\ row[c] # None /\ row[c] = row[e] => c = e
    BY DEF UniqueSSRC
  <2>2. ASSUME NEW d \in Devices, NEW b \in Channels, Known(d, b) # None
        PROVE  Known(d, b) \in SSRCs /\ Names(Known(d, b), d, b)
    BY <2>1, <2>2, Found DEF Names
  <2>3. ASSUME NEW b \in Channels, row[b] # None
        PROVE  row[b] \in SSRCs /\ \E d \in Devices : Names(row[b], d, b)
    <3>1. row[b] \in SSRCs /\ rowDevice[b] \in Devices
      BY <2>1, <2>3 DEF SavedInv, TypeOK, RowInv
    <3>2. QED
      BY <3>1 DEF Names
  <2>4. QED
    BY <2>1, <2>2, <2>3 DEF NameInv
<1>3. QED
  BY <1>1, <1>2, AlwaysSavedInv, NextNameInv, PTL DEF Spec
=============================================================================
