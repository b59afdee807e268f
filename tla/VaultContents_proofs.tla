------------------------ MODULE VaultContents_proofs ------------------------
(* Whatever the devices change, move, remove and resolve, every vault they   *)
(* hold is well formed and well organized: TypeOK and VaultsStayOrganized    *)
(* are inductive together, since each change keeps the organization of the   *)
(* one vault that it starts from.  On top of them, VersionInv says what the  *)
(* vectors of vaults and items order.  From it follow the two properties     *)
(* that compare vaults of several devices: who is behind can always catch    *)
(* up, and a form is submitted over what it shows.                           *)
EXTENDS VaultContents, VersionVectors_proofs

\* Putting an item among others changes no other item.
LEMMA WithItems ==
    ASSUME NEW items, NEW i, NEW item
    PROVE  /\ DOMAIN With(items, i, item) = DOMAIN items \union {i}
           /\ With(items, i, item)[i] = item
           /\ \A j \in DOMAIN items : j # i => With(items, i, item)[j] = items[j]
BY DEF With

\* An item with data is there, one without data is not.
LEMMA LiveWith ==
    ASSUME NEW items, NEW i, NEW item
    PROVE  /\ item.data # None => Live(With(items, i, item)) = Live(items) \union {i}
           /\ item.data = None => Live(With(items, i, item)) = Live(items) \ {i}
           /\ \A j \in Live(items) : j # i => With(items, i, item)[j] = items[j]
BY DEF With, Live

-----------------------------------------------------------------------------
(* What keeps the organization of a vault v when it becomes w.               *)

\* An entry is removed, or fits where it is put.
LEMMA EntryChangeKeepsOrganization ==
    ASSUME NEW v, NEW w, ValidOrganization(v), NEW e, NEW item,
           w.folders = v.folders, w.tags = v.tags,
           w.entries = With(v.entries, e, item),
           item.data # None => EntryFits(v, item.data)
    PROVE  ValidOrganization(w)
<1>1. TagNamesDiffer(w) /\ FolderNamesDiffer(w)
  BY DEF ValidOrganization, TagNamesDiffer, FolderNamesDiffer
<1>2. ParentsExist(w) /\ Acyclic(w)
  BY DEF ValidOrganization, ParentsExist, Acyclic, Parent
<1>3. ASSUME NEW x \in Live(w.entries)
      PROVE  EntryFits(w, w.entries[x].data)
  <2>1. CASE x = e
    <3>1. w.entries[x] = item
      BY <2>1 DEF With
    <3>2. item.data # None
      BY <3>1 DEF Live
    <3> QED
      BY <3>1, <3>2 DEF EntryFits
  <2>2. CASE x # e
    <3>1. x \in Live(v.entries) /\ w.entries[x] = v.entries[x]
      BY <2>2 DEF With, Live
    <3> QED
      BY <3>1 DEF ValidOrganization, EntriesFit, EntryFits
  <2> QED
    BY <2>1, <2>2
<1> QED
  BY <1>1, <1>2, <1>3 DEF ValidOrganization, EntriesFit

\* A tag is removed that no entry has, or is given a name that no other has.
LEMMA TagChangeKeepsOrganization ==
    ASSUME NEW v, NEW w, ValidOrganization(v), NEW t, NEW item,
           w.entries = v.entries, w.folders = v.folders,
           w.tags = With(v.tags, t, item),
           item.data # None =>
               \A s \in Live(v.tags) \ {t} : v.tags[s].data # item.data,
           item.data = None =>
               \A e \in Live(v.entries) : t \notin v.entries[e].data.tags
    PROVE  ValidOrganization(w)
<1>1. FolderNamesDiffer(w) /\ ParentsExist(w) /\ Acyclic(w)
  BY DEF ValidOrganization, FolderNamesDiffer, ParentsExist, Acyclic, Parent
<1>2. TagNamesDiffer(w)
  <2>1. ASSUME NEW r \in Live(w.tags), NEW s \in Live(w.tags),
               w.tags[r].data = w.tags[s].data
        PROVE  r = s
    <3>1. w.tags[t] = item
      BY DEF With
    <3>2. \A x \in Live(w.tags) :
              x # t => x \in Live(v.tags) /\ w.tags[x] = v.tags[x]
      BY DEF With, Live
    <3>3. t \in Live(w.tags) => item.data # None
      BY <3>1 DEF Live
    <3>4. \A x \in Live(v.tags), y \in Live(v.tags) :
              v.tags[x].data = v.tags[y].data => x = y
      BY DEF ValidOrganization, TagNamesDiffer
    <3> QED
      BY <2>1, <3>1, <3>2, <3>3, <3>4
  <2> QED
    BY <2>1 DEF TagNamesDiffer
<1>3. ASSUME NEW e \in Live(w.entries)
      PROVE  EntryFits(w, w.entries[e].data)
  <2>1. EntryFits(v, v.entries[e].data)
    BY DEF ValidOrganization, EntriesFit
  <2>2. v.entries[e].data.tags \subseteq Live(w.tags)
    BY <2>1 DEF EntryFits, With, Live
  <2> QED
    BY <2>1, <2>2 DEF EntryFits
<1> QED
  BY <1>1, <1>2, <1>3 DEF ValidOrganization, EntriesFit

\* A folder with data has a parent that exists, and a name that no other folder
\* of this parent has; the tree is looked at separately.
LEMMA FolderChangeKeepsOrganization ==
    ASSUME NEW v, NEW w, ValidOrganization(v), NEW f, NEW item,
           w.entries = v.entries, w.tags = v.tags,
           w.folders = With(v.folders, f, item),
           item.data # None,
           item.data.parent \in Live(v.folders) \union {None},
           \A g \in Live(v.folders) \ {f} : v.folders[g].data # item.data,
           Acyclic(w)
    PROVE  ValidOrganization(w)
<1>1. TagNamesDiffer(w)
  BY DEF ValidOrganization, TagNamesDiffer
<1>2. w.folders[f] = item
  BY DEF With
<1>3. Live(w.folders) = Live(v.folders) \union {f}
  BY DEF With, Live
<1>4. \A g \in Live(v.folders) : g # f => w.folders[g] = v.folders[g]
  BY DEF With, Live
<1>5. FolderNamesDiffer(w)
  <2>1. \A g \in Live(v.folders), h \in Live(v.folders) :
            v.folders[g].data = v.folders[h].data => g = h
    BY DEF ValidOrganization, FolderNamesDiffer
  <2> QED
    BY <1>2, <1>3, <1>4, <2>1 DEF FolderNamesDiffer
<1>6. ParentsExist(w)
  <2>1. \A g \in Live(v.folders) :
            v.folders[g].data.parent \in Live(v.folders) \union {None}
    BY DEF ValidOrganization, ParentsExist, Parent
  <2> QED
    BY <1>2, <1>3, <1>4, <2>1 DEF ParentsExist, Parent
<1>7. EntriesFit(w)
  BY <1>3 DEF ValidOrganization, EntriesFit, EntryFits
<1> QED
  BY <1>1, <1>5, <1>6, <1>7 DEF ValidOrganization

\* A new folder is nobody's parent.
LEMMA AddedFolderKeepsTree ==
    ASSUME NEW v, NEW w, ParentsExist(v), Acyclic(v), NEW f, NEW item,
           w.folders = With(v.folders, f, item),
           f \notin Live(v.folders), f # None, item.data # None,
           item.data.parent \in Live(v.folders) \union {None}
    PROVE  Acyclic(w)
<1>1. Live(w.folders) = Live(v.folders) \union {f} /\ Parent(w, f) = item.data.parent
  BY DEF With, Live, Parent
<1>2. \A g \in Live(v.folders) : Parent(w, g) = Parent(v, g)
  BY DEF With, Live, Parent
<1>3. ASSUME NEW S \in SUBSET Live(w.folders), S # {}
      PROVE  \E g \in S : Parent(w, g) \notin S
  <2>1. CASE S \ {f} = {}
    <3>1. f \in S /\ Parent(w, f) \notin S
      BY <1>1, <1>3, <2>1
    <3> QED
      BY <3>1
  <2>2. CASE S \ {f} # {}
    <3>1. S \ {f} \in SUBSET Live(v.folders)
      BY <1>1
    <3>2. PICK g \in S \ {f} : Parent(v, g) \notin S \ {f}
      BY <2>2, <3>1 DEF Acyclic
    <3>3. Parent(v, g) \in Live(v.folders) \union {None}
      BY <3>1 DEF ParentsExist
    <3>4. Parent(w, g) \notin S
      BY <1>2, <3>1, <3>2, <3>3
    <3> QED
      BY <3>4
  <2> QED
    BY <2>1, <2>2
<1> QED
  BY <1>3 DEF Acyclic

\* Renaming leaves the tree alone.
LEMMA RenamedFolderKeepsTree ==
    ASSUME NEW v, NEW w, Acyclic(v), NEW f \in Live(v.folders), NEW item,
           w.folders = With(v.folders, f, item),
           item.data # None, item.data.parent = Parent(v, f)
    PROVE  Acyclic(w)
<1>1. Live(w.folders) = Live(v.folders)
  BY DEF With, Live
<1>2. \A g \in Live(v.folders) : Parent(w, g) = Parent(v, g)
  BY DEF With, Live, Parent
<1> QED
  BY <1>1, <1>2 DEF Acyclic

\* A folder moves under a folder that is not below it.
LEMMA MovedFolderKeepsTree ==
    ASSUME NEW v, NEW w, ParentsExist(v), Acyclic(v), NEW f \in Live(v.folders),
           NEW item, w.folders = With(v.folders, f, item), item.data # None,
           None \notin Live(v.folders),
           MoveKeepsTree(v, f, item.data.parent)
    PROVE  Acyclic(w)
<1>1. Live(w.folders) = Live(v.folders) /\ Parent(w, f) = item.data.parent
  BY DEF With, Live, Parent
<1>2. \A g \in Live(v.folders) : g # f => Parent(w, g) = Parent(v, g)
  BY DEF With, Live, Parent
<1>3. PICK walk \in SUBSET Live(v.folders) :
          /\ f \notin walk
          /\ item.data.parent \in walk \union {None}
          /\ \A g \in walk : Parent(v, g) \in walk \union {None}
  BY DEF MoveKeepsTree
<1>4. ASSUME NEW S \in SUBSET Live(w.folders), S # {}
      PROVE  \E g \in S : Parent(w, g) \notin S
  <2>1. CASE f \notin S
    <3>1. PICK g \in S : Parent(v, g) \notin S
      BY <1>1, <1>4 DEF Acyclic
    <3> QED
      BY <1>1, <1>2, <2>1, <3>1
  <2>2. CASE f \in S /\ S \intersect walk = {}
    <3>1. Parent(w, f) \notin S
      BY <1>1, <1>3, <2>2
    <3> QED
      BY <2>2, <3>1
  <2>3. CASE S \intersect walk # {}
    <3>1. PICK g \in S \intersect walk : Parent(v, g) \notin S \intersect walk
      <4>1. S \intersect walk \in SUBSET Live(v.folders)
        BY <1>3
      <4> QED
        BY <2>3, <4>1 DEF Acyclic
    <3>2. Parent(w, g) \notin S
      BY <1>1, <1>2, <1>3, <3>1
    <3> QED
      BY <3>1, <3>2
  <2> QED
    BY <2>1, <2>2, <2>3
<1> QED
  BY <1>4 DEF Acyclic

\* A folder is removed that holds no entry and no folder.
LEMMA RemovedFolderKeepsOrganization ==
    ASSUME NEW v, NEW w, ValidOrganization(v), NEW f, NEW item,
           w.entries = v.entries, w.tags = v.tags,
           w.folders = With(v.folders, f, item),
           item.data = None, f # None,
           \A e \in Live(v.entries) : v.entries[e].data.folder # f,
           \A g \in Live(v.folders) : Parent(v, g) # f
    PROVE  ValidOrganization(w)
<1>1. TagNamesDiffer(w)
  BY DEF ValidOrganization, TagNamesDiffer
<1>2. Live(w.folders) = Live(v.folders) \ {f}
  BY DEF With, Live
<1>3. \A g \in Live(w.folders) : w.folders[g] = v.folders[g]
  BY DEF With, Live
<1>4. FolderNamesDiffer(w)
  BY <1>2, <1>3 DEF ValidOrganization, FolderNamesDiffer
<1>5. \A g \in Live(w.folders) : Parent(w, g) = Parent(v, g)
  BY <1>3 DEF Parent
<1>6. ParentsExist(w)
  BY <1>2, <1>5 DEF ValidOrganization, ParentsExist
<1>7. Acyclic(w)
  BY <1>2, <1>5 DEF ValidOrganization, Acyclic
<1>8. EntriesFit(w)
  BY <1>2 DEF ValidOrganization, EntriesFit, EntryFits
<1> QED
  BY <1>1, <1>4, <1>6, <1>7, <1>8 DEF ValidOrganization

-----------------------------------------------------------------------------
(* What is well formed stays well formed.                                    *)

\* Both kinds of changed item are items.
LEMMA NewItemIsItem ==
    ASSUME NEW v, IsVersionVector(v.vector), NEW d \in Devices,
           NEW Data, NEW data \in Data \union {None}
    PROVE  IsItem(NewItem(v, d, data), Data) /\ NewItem(v, d, data).data = data
<1> DEFINE vector == [x \in {d} |-> Component(v.vector, d) + 1]
<1>1. Component(v.vector, d) \in Nat
  BY ComponentType
<1>2. IsVersionVector(vector)
  BY <1>1 DEF IsVersionVector
<1> HIDE DEF vector
<1>3. NewItem(v, d, data) = [vector |-> vector, data |-> data]
  BY DEF NewItem, vector
<1> QED
  BY <1>2, <1>3 DEF IsItem

LEMMA RestampedIsItem ==
    ASSUME NEW item, IsVersionVector(item.vector), NEW d \in Devices,
           NEW Data, NEW data \in Data \union {None}
    PROVE  IsItem(Restamped(item, d, data), Data) /\ Restamped(item, d, data).data = data
<1> DEFINE vector == IncrementVersionVector(item.vector, d)
<1>1. IsVersionVector(vector)
  BY IncrementComponents
<1> HIDE DEF vector
<1>2. Restamped(item, d, data) = [vector |-> vector, data |-> data]
  BY DEF Restamped, vector
<1> QED
  BY <1>1, <1>2 DEF IsItem

LEMMA WithKeepsItems ==
    ASSUME NEW items, NEW Ids, NEW Data, AreItems(items, Ids, Data),
           NEW i \in Ids, NEW item, IsItem(item, Data)
    PROVE  AreItems(With(items, i, item), Ids, Data)
<1> DEFINE new == With(items, i, item)
<1>1. DOMAIN new = DOMAIN items \union {i} /\ new = [x \in DOMAIN new |-> new[x]]
  BY DEF With
<1>2. ASSUME NEW x \in DOMAIN new PROVE IsItem(new[x], Data)
  <2>1. CASE x = i
    <3>1. new[x] = item
      BY <2>1 DEF With
    <3> QED
      BY <3>1
  <2>2. CASE x # i
    <3>1. x \in DOMAIN items /\ new[x] = items[x]
      BY <2>2 DEF With
    <3> QED
      BY <3>1 DEF AreItems
  <2> QED
    BY <2>1, <2>2
<1>3. DOMAIN new \subseteq Ids
  BY <1>1 DEF AreItems
<1> QED
  BY <1>1, <1>2, <1>3 DEF AreItems

LEMMA WithEntryIsVault ==
    ASSUME NEW v, IsVault(v), NEW e \in Entries, NEW d \in Devices,
           NEW item, IsItem(item, EntryData)
    PROVE  /\ IsVault(WithEntry(v, e, item, d))
           /\ WithEntry(v, e, item, d).entries = With(v.entries, e, item)
           /\ WithEntry(v, e, item, d).folders = v.folders
           /\ WithEntry(v, e, item, d).tags = v.tags
<1> DEFINE vector == IncrementVersionVector(v.vector, d)
           entries == With(v.entries, e, item)
<1>1. IsVersionVector(vector)
  BY IncrementComponents DEF IsVault
<1>2. AreItems(entries, Entries, EntryData)
  BY WithKeepsItems DEF IsVault
<1> HIDE DEF vector, entries
<1>3. WithEntry(v, e, item, d) =
          [vector |-> vector, entries |-> entries,
           folders |-> v.folders, tags |-> v.tags]
  BY DEF WithEntry, vector, entries
<1> QED
  BY <1>1, <1>2, <1>3 DEF IsVault, entries

LEMMA WithFolderIsVault ==
    ASSUME NEW v, IsVault(v), NEW f \in Folders, NEW d \in Devices,
           NEW item, IsItem(item, FolderData)
    PROVE  /\ IsVault(WithFolder(v, f, item, d))
           /\ WithFolder(v, f, item, d).entries = v.entries
           /\ WithFolder(v, f, item, d).folders = With(v.folders, f, item)
           /\ WithFolder(v, f, item, d).tags = v.tags
<1> DEFINE vector == IncrementVersionVector(v.vector, d)
           folders == With(v.folders, f, item)
<1>1. IsVersionVector(vector)
  BY IncrementComponents DEF IsVault
<1>2. AreItems(folders, Folders, FolderData)
  BY WithKeepsItems DEF IsVault
<1> HIDE DEF vector, folders
<1>3. WithFolder(v, f, item, d) =
          [vector |-> vector, entries |-> v.entries,
           folders |-> folders, tags |-> v.tags]
  BY DEF WithFolder, vector, folders
<1> QED
  BY <1>1, <1>2, <1>3 DEF IsVault, folders

LEMMA WithTagIsVault ==
    ASSUME NEW v, IsVault(v), NEW t \in Tags, NEW d \in Devices,
           NEW item, IsItem(item, Names)
    PROVE  /\ IsVault(WithTag(v, t, item, d))
           /\ WithTag(v, t, item, d).entries = v.entries
           /\ WithTag(v, t, item, d).folders = v.folders
           /\ WithTag(v, t, item, d).tags = With(v.tags, t, item)
<1> DEFINE vector == IncrementVersionVector(v.vector, d)
           tags == With(v.tags, t, item)
<1>1. IsVersionVector(vector)
  BY IncrementComponents DEF IsVault
<1>2. AreItems(tags, Tags, Names)
  BY WithKeepsItems DEF IsVault
<1> HIDE DEF vector, tags
<1>3. WithTag(v, t, item, d) =
          [vector |-> vector, entries |-> v.entries,
           folders |-> v.folders, tags |-> tags]
  BY DEF WithTag, vector, tags
<1> QED
  BY <1>1, <1>2, <1>3 DEF IsVault, tags

\* Two vectors that either side may lack make a vector.
LEMMA StampedIsVector ==
    ASSUME NEW local, NEW other, NEW i, NEW d \in Devices,
           i \in DOMAIN local => IsVersionVector(local[i].vector),
           i \in DOMAIN other => IsVersionVector(other[i].vector)
    PROVE  IsVersionVector(Stamped(local, other, i, d))
<1>1. IsVersionVector(NoVector)
  BY DEF NoVector, IsVersionVector
<1>2. IsVersionVector(VectorOf(local, i)) /\ IsVersionVector(VectorOf(other, i))
  BY <1>1 DEF VectorOf
<1>3. IsVersionVector(MergeVersionVectors(VectorOf(local, i), VectorOf(other, i)))
  BY <1>2, MergeComponents
<1> QED
  BY <1>3, IncrementComponents DEF Stamped

\* An item that is resolved has the data of a side that has the item.
LEMMA ResolvedItemsAreItems ==
    ASSUME NEW Ids, NEW Data, NEW d \in Devices,
           NEW local, AreItems(local, Ids, Data),
           NEW other, AreItems(other, Ids, Data), Reviewable(local, other),
           NEW kept, kept \intersect Ids \subseteq DOMAIN local
    PROVE  AreItems(ResolvedItems(local, other, kept, d), Ids, Data)
<1> DEFINE items == ResolvedItems(local, other, kept, d)
<1>1. /\ DOMAIN items = DOMAIN local \union DOMAIN other
      /\ items = [i \in DOMAIN items |-> items[i]]
  BY DEF ResolvedItems
<1>2. DOMAIN items \subseteq Ids
  BY <1>1 DEF AreItems
<1>3. ASSUME NEW i \in DOMAIN items PROVE IsItem(items[i], Data)
  <2>1. CASE ItemRelation(local, other, i) = "equal"
    <3>1. items[i] = local[i]
      BY <1>1, <2>1 DEF ResolvedItems
    <3>2. i \in DOMAIN local
      BY <2>1 DEF ItemRelation
    <3> QED
      BY <3>1, <3>2 DEF AreItems
  <2>2. CASE ItemRelation(local, other, i) # "equal"
    <3> DEFINE vector == Stamped(local, other, i, d)
               data == IF i \in kept THEN local[i].data ELSE other[i].data
    <3>1. IsVersionVector(vector)
      BY StampedIsVector DEF AreItems, IsItem
    <3>2. i \in kept => i \in DOMAIN local
      BY <1>2
    <3>3. i \notin kept => i \in DOMAIN other
      <4>1. i \in DOMAIN local => ItemRelation(local, other, i) # "broken"
        BY DEF Reviewable
      <4>2. i \in DOMAIN local => i \in DOMAIN other
        BY <4>1 DEF ItemRelation
      <4> QED
        BY <1>1, <4>2
    <3>4. data \in Data \union {None}
      BY <3>2, <3>3 DEF AreItems, IsItem
    <3>5. items[i] = [vector |-> vector, data |-> data]
      BY <1>1, <2>2 DEF ResolvedItems
    <3> HIDE DEF vector, data
    <3> QED
      BY <3>1, <3>4, <3>5 DEF IsItem
  <2> QED
    BY <2>1, <2>2
<1> QED
  BY <1>1, <1>2, <1>3 DEF AreItems

\* A resolution of two vaults is a vault.
LEMMA ResolvedIsVault ==
    ASSUME NEW local, IsVault(local), NEW other, IsVault(other),
           AllReviewable(local, other), NEW d \in Devices,
           NEW kept \in SUBSET (MayKeep(local.entries, other.entries)
                                \union MayKeep(local.folders, other.folders)
                                \union MayKeep(local.tags, other.tags))
    PROVE  IsVault(Resolved(local, other, kept, d))
<1> DEFINE vector == IncrementVersionVector(
                         MergeVersionVectors(local.vector, other.vector), d)
           entries == ResolvedItems(local.entries, other.entries, kept, d)
           folders == ResolvedItems(local.folders, other.folders, kept, d)
           tags == ResolvedItems(local.tags, other.tags, kept, d)
<1>1. IsVersionVector(vector)
  BY MergeComponents, IncrementComponents DEF IsVault
<1>2. kept \subseteq DOMAIN local.entries \union DOMAIN local.folders
                     \union DOMAIN local.tags
  BY DEF MayKeep
<1>3. /\ DOMAIN local.entries \subseteq Entries
      /\ DOMAIN local.folders \subseteq Folders
      /\ DOMAIN local.tags \subseteq Tags
  BY DEF IsVault, AreItems
<1>4. /\ kept \intersect Entries \subseteq DOMAIN local.entries
      /\ kept \intersect Folders \subseteq DOMAIN local.folders
      /\ kept \intersect Tags \subseteq DOMAIN local.tags
  BY <1>2, <1>3, IdentitiesAssumption
<1>5. AreItems(entries, Entries, EntryData)
  BY <1>4, ResolvedItemsAreItems DEF IsVault, AllReviewable
<1>6. AreItems(folders, Folders, FolderData)
  BY <1>4, ResolvedItemsAreItems DEF IsVault, AllReviewable
<1>7. AreItems(tags, Tags, Names)
  BY <1>4, ResolvedItemsAreItems DEF IsVault, AllReviewable
<1>8. Resolved(local, other, kept, d) =
          [vector |-> vector, entries |-> entries, folders |-> folders, tags |-> tags]
  BY DEF Resolved
<1> HIDE DEF vector, entries, folders, tags
<1> QED
  BY <1>1, <1>5, <1>6, <1>7, <1>8 DEF IsVault

-----------------------------------------------------------------------------
(* The invariant, action by action.                                          *)

IInv == TypeOK /\ VaultsStayOrganized

\* Of a vault that some device holds.
LEMMA VaultOf ==
    ASSUME IInv, NEW d \in Devices
    PROVE  /\ IsVault(vault[d]) /\ ValidOrganization(vault[d])
           /\ IsVersionVector(vault[d].vector)
           /\ AreItems(vault[d].entries, Entries, EntryData)
           /\ AreItems(vault[d].folders, Folders, FolderData)
           /\ AreItems(vault[d].tags, Tags, Names)
<1>1. vault[d] \in Everywhere
  BY DEF Everywhere
<1>2. IsVault(vault[d]) /\ ValidOrganization(vault[d])
  BY <1>1 DEF IInv, TypeOK, VaultsStayOrganized
<1> QED
  BY <1>2 DEF IsVault

\* Saving a vault that is well formed and organized keeps the invariant.
LEMMA SavesKeepsInvariant ==
    ASSUME IInv, NEW d \in Devices, NEW w, IsVault(w), ValidOrganization(w),
           Saves(d, w), UNCHANGED form \/ form' = None
    PROVE  IInv'
<1>1. Everywhere' \subseteq Everywhere \union {w} /\ DOMAIN vault' = Devices
  BY DEF Saves, Everywhere, IInv, TypeOK
<1>2. \A v \in Everywhere : IsVault(v) /\ ValidOrganization(v)
  BY DEF IInv, TypeOK, VaultsStayOrganized
<1>3. VaultsStayOrganized'
  BY <1>1, <1>2 DEF VaultsStayOrganized
<1>4. \A v \in Everywhere' : IsVault(v)
  BY <1>1, <1>2
<1>5. changes' \in 0..MaxChanges /\ lost' \in 0..MaxLost
  BY BoundsAssumption DEF Saves, IInv, TypeOK
<1>6. (form # None => /\ form.device \in Devices
                      /\ form.id \in Entries \union Folders \union Tags
                      /\ IsVersionVector(form.item.vector))'
  BY DEF IInv, TypeOK
<1> QED
  BY <1>1, <1>3, <1>4, <1>5, <1>6 DEF IInv, TypeOK

\* A submitted change is about an item that is there.
LEMMA ExpectsItem ==
    ASSUME IInv, NEW d \in Devices, NEW i, NEW items, NEW Ids, NEW Data,
           AreItems(items, Ids, Data), None \notin Data, Expects(d, i, items)
    PROVE  /\ i \in Live(items) /\ i \in Ids
           /\ IsVersionVector(items[i].vector) /\ items[i].data \in Data
           /\ UNCHANGED form \/ form' = None
<1>1. i \in Live(items) /\ (UNCHANGED form \/ form' = None)
  BY DEF Expects
<1> QED
  BY <1>1 DEF Live, AreItems, IsItem

LEMMA AddEntryKeepsInvariant ==
    ASSUME IInv, NEW d \in Devices, AddEntry(d)
    PROVE  IInv'
<1>1. PICK e \in Entries, data \in EntryData :
          /\ Adds(d) /\ EntryFits(vault[d], data)
          /\ Saves(d, WithEntry(vault[d], e, NewItem(vault[d], d, data), d))
  BY DEF AddEntry
<1> DEFINE item == NewItem(vault[d], d, data)
           w == WithEntry(vault[d], e, item, d)
<1>2. IsItem(item, EntryData) /\ item.data = data
  BY VaultOf, NewItemIsItem
<1> HIDE DEF item
<1>3. /\ IsVault(w) /\ w.folders = vault[d].folders /\ w.tags = vault[d].tags
      /\ w.entries = With(vault[d].entries, e, item)
  BY <1>2, VaultOf, WithEntryIsVault
<1>4. Saves(d, w) /\ UNCHANGED form
  BY <1>1 DEF item, Adds
<1> HIDE DEF w
<1>5. ValidOrganization(w)
  BY <1>1, <1>2, <1>3, VaultOf, EntryChangeKeepsOrganization
<1> QED
  BY <1>3, <1>4, <1>5, SavesKeepsInvariant

LEMMA UpdateEntryKeepsInvariant ==
    ASSUME IInv, NEW d \in Devices, UpdateEntry(d)
    PROVE  IInv'
<1>1. PICK e \in Entries, data \in EntryData :
          /\ Expects(d, e, vault[d].entries) /\ EntryFits(vault[d], data)
          /\ Saves(d, WithEntry(vault[d], e,
                                Restamped(vault[d].entries[e], d, data), d))
  BY DEF UpdateEntry
<1> DEFINE item == Restamped(vault[d].entries[e], d, data)
           w == WithEntry(vault[d], e, item, d)
<1>2. /\ IsVersionVector(vault[d].entries[e].vector)
      /\ UNCHANGED form \/ form' = None
  BY <1>1, VaultOf, ExpectsItem, NoneAssumption
<1>3. IsItem(item, EntryData) /\ item.data = data
  BY <1>2, RestampedIsItem
<1> HIDE DEF item
<1>4. /\ IsVault(w) /\ w.folders = vault[d].folders /\ w.tags = vault[d].tags
      /\ w.entries = With(vault[d].entries, e, item)
  BY <1>3, VaultOf, WithEntryIsVault
<1>5. Saves(d, w)
  BY <1>1 DEF item
<1> HIDE DEF w
<1>6. ValidOrganization(w)
  BY <1>1, <1>3, <1>4, VaultOf, EntryChangeKeepsOrganization
<1> QED
  BY <1>2, <1>4, <1>5, <1>6, SavesKeepsInvariant

LEMMA RemoveEntryKeepsInvariant ==
    ASSUME IInv, NEW d \in Devices, RemoveEntry(d)
    PROVE  IInv'
<1>1. PICK e \in Entries :
          /\ Expects(d, e, vault[d].entries)
          /\ Saves(d, WithEntry(vault[d], e,
                                Tombstone(vault[d], vault[d].entries[e], d), d))
  BY DEF RemoveEntry
<1> DEFINE item == Restamped(vault[d].entries[e], d, None)
           w == WithEntry(vault[d], e, item, d)
<1>2. /\ IsVersionVector(vault[d].entries[e].vector)
      /\ UNCHANGED form \/ form' = None
  BY <1>1, VaultOf, ExpectsItem, NoneAssumption
<1>3. IsItem(item, EntryData) /\ item.data = None
  BY <1>2, RestampedIsItem
<1> HIDE DEF item
<1>4. /\ IsVault(w) /\ w.folders = vault[d].folders /\ w.tags = vault[d].tags
      /\ w.entries = With(vault[d].entries, e, item)
  BY <1>3, VaultOf, WithEntryIsVault
<1>5. Saves(d, w)
  BY <1>1 DEF item, Tombstone
<1> HIDE DEF w
<1>6. ValidOrganization(w)
  BY <1>3, <1>4, VaultOf, EntryChangeKeepsOrganization
<1> QED
  BY <1>2, <1>4, <1>5, <1>6, SavesKeepsInvariant

LEMMA AddTagKeepsInvariant ==
    ASSUME IInv, NEW d \in Devices, AddTag(d)
    PROVE  IInv'
<1>1. PICK t \in Tags, name \in Names :
          /\ Adds(d)
          /\ \A s \in Live(vault[d].tags) : vault[d].tags[s].data # name
          /\ Saves(d, WithTag(vault[d], t, NewItem(vault[d], d, name), d))
  BY DEF AddTag
<1> DEFINE item == NewItem(vault[d], d, name)
           w == WithTag(vault[d], t, item, d)
<1>2. IsItem(item, Names) /\ item.data = name
  BY VaultOf, NewItemIsItem
<1> HIDE DEF item
<1>3. /\ IsVault(w) /\ w.entries = vault[d].entries /\ w.folders = vault[d].folders
      /\ w.tags = With(vault[d].tags, t, item)
  BY <1>2, VaultOf, WithTagIsVault
<1>4. Saves(d, w) /\ UNCHANGED form
  BY <1>1 DEF item, Adds
<1> HIDE DEF w
<1>5. ValidOrganization(w)
  BY <1>1, <1>2, <1>3, VaultOf, NoneAssumption, TagChangeKeepsOrganization
<1> QED
  BY <1>3, <1>4, <1>5, SavesKeepsInvariant

LEMMA UpdateTagKeepsInvariant ==
    ASSUME IInv, NEW d \in Devices, UpdateTag(d)
    PROVE  IInv'
<1>1. PICK t \in Tags, name \in Names :
          /\ Expects(d, t, vault[d].tags)
          /\ \A s \in Live(vault[d].tags) \ {t} : vault[d].tags[s].data # name
          /\ Saves(d, WithTag(vault[d], t,
                              Restamped(vault[d].tags[t], d, name), d))
  BY DEF UpdateTag
<1> DEFINE item == Restamped(vault[d].tags[t], d, name)
           w == WithTag(vault[d], t, item, d)
<1>2. /\ IsVersionVector(vault[d].tags[t].vector)
      /\ UNCHANGED form \/ form' = None
  BY <1>1, VaultOf, ExpectsItem, NoneAssumption
<1>3. IsItem(item, Names) /\ item.data = name
  BY <1>2, RestampedIsItem
<1> HIDE DEF item
<1>4. /\ IsVault(w) /\ w.entries = vault[d].entries /\ w.folders = vault[d].folders
      /\ w.tags = With(vault[d].tags, t, item)
  BY <1>3, VaultOf, WithTagIsVault
<1>5. Saves(d, w)
  BY <1>1 DEF item
<1> HIDE DEF w
<1>6. ValidOrganization(w)
  BY <1>1, <1>3, <1>4, VaultOf, NoneAssumption, TagChangeKeepsOrganization
<1> QED
  BY <1>2, <1>4, <1>5, <1>6, SavesKeepsInvariant

LEMMA RemoveTagKeepsInvariant ==
    ASSUME IInv, NEW d \in Devices, RemoveTag(d)
    PROVE  IInv'
<1>1. PICK t \in Tags :
          /\ Expects(d, t, vault[d].tags)
          /\ \A e \in Live(vault[d].entries) :
                 t \notin vault[d].entries[e].data.tags
          /\ Saves(d, WithTag(vault[d], t,
                              Tombstone(vault[d], vault[d].tags[t], d), d))
  BY DEF RemoveTag
<1> DEFINE item == Restamped(vault[d].tags[t], d, None)
           w == WithTag(vault[d], t, item, d)
<1>2. /\ IsVersionVector(vault[d].tags[t].vector)
      /\ UNCHANGED form \/ form' = None
  BY <1>1, VaultOf, ExpectsItem, NoneAssumption
<1>3. IsItem(item, Names) /\ item.data = None
  BY <1>2, RestampedIsItem
<1> HIDE DEF item
<1>4. /\ IsVault(w) /\ w.entries = vault[d].entries /\ w.folders = vault[d].folders
      /\ w.tags = With(vault[d].tags, t, item)
  BY <1>3, VaultOf, WithTagIsVault
<1>5. Saves(d, w)
  BY <1>1 DEF item, Tombstone
<1> HIDE DEF w
<1>6. ValidOrganization(w)
  BY <1>1, <1>3, <1>4, VaultOf, TagChangeKeepsOrganization
<1> QED
  BY <1>2, <1>4, <1>5, <1>6, SavesKeepsInvariant

LEMMA AddFolderKeepsInvariant ==
    ASSUME IInv, NEW d \in Devices, AddFolder(d)
    PROVE  IInv'
<1>1. PICK f \in Folders, data \in FolderData :
          /\ Adds(d) /\ f \notin DOMAIN vault[d].folders
          /\ data.parent \in Live(vault[d].folders) \union {None}
          /\ \A g \in Live(vault[d].folders) : vault[d].folders[g].data # data
          /\ Saves(d, WithFolder(vault[d], f, NewItem(vault[d], d, data), d))
  BY DEF AddFolder, Everywhere
<1> DEFINE item == NewItem(vault[d], d, data)
           w == WithFolder(vault[d], f, item, d)
<1>2. IsItem(item, FolderData) /\ item.data = data
  BY VaultOf, NewItemIsItem
<1> HIDE DEF item
<1>3. /\ IsVault(w) /\ w.entries = vault[d].entries /\ w.tags = vault[d].tags
      /\ w.folders = With(vault[d].folders, f, item)
  BY <1>2, VaultOf, WithFolderIsVault
<1>4. Saves(d, w) /\ UNCHANGED form
  BY <1>1 DEF item, Adds
<1> HIDE DEF w
<1>5. item.data # None /\ f # None /\ f \notin Live(vault[d].folders)
  BY <1>1, <1>2, NoneAssumption DEF Live
<1>6. Acyclic(w)
  BY <1>1, <1>2, <1>3, <1>5, VaultOf, AddedFolderKeepsTree DEF ValidOrganization
<1>7. ValidOrganization(w)
  BY <1>1, <1>2, <1>3, <1>5, <1>6, VaultOf, FolderChangeKeepsOrganization
<1> QED
  BY <1>3, <1>4, <1>7, SavesKeepsInvariant

LEMMA UpdateFolderKeepsInvariant ==
    ASSUME IInv, NEW d \in Devices, UpdateFolder(d)
    PROVE  IInv'
<1> DEFINE Data(f, name) == [parent |-> vault[d].folders[f].data.parent, name |-> name]
<1>1. PICK f \in Folders, name \in Names :
          /\ Expects(d, f, vault[d].folders)
          /\ \A g \in Live(vault[d].folders) \ {f} :
                 vault[d].folders[g].data # Data(f, name)
          /\ Saves(d, WithFolder(vault[d], f,
                          Restamped(vault[d].folders[f], d, Data(f, name)), d))
  BY DEF UpdateFolder
<1> DEFINE item == Restamped(vault[d].folders[f], d, Data(f, name))
           w == WithFolder(vault[d], f, item, d)
<1>2. /\ f \in Live(vault[d].folders)
      /\ IsVersionVector(vault[d].folders[f].vector)
      /\ vault[d].folders[f].data \in FolderData
      /\ UNCHANGED form \/ form' = None
  BY <1>1, VaultOf, ExpectsItem, NoneAssumption
<1>3. /\ Data(f, name) \in FolderData
      /\ Data(f, name).parent = Parent(vault[d], f)
  BY <1>2 DEF FolderData, Parent
<1> HIDE DEF Data
<1>4. IsItem(item, FolderData) /\ item.data = Data(f, name)
  BY <1>2, <1>3, RestampedIsItem
<1> HIDE DEF item
<1>5. /\ IsVault(w) /\ w.entries = vault[d].entries /\ w.tags = vault[d].tags
      /\ w.folders = With(vault[d].folders, f, item)
  BY <1>4, VaultOf, WithFolderIsVault
<1>6. Saves(d, w)
  BY <1>1 DEF item
<1> HIDE DEF w
<1>7. item.data # None /\ item.data.parent = Parent(vault[d], f)
  BY <1>3, <1>4, NoneAssumption
<1>8. item.data.parent \in Live(vault[d].folders) \union {None}
  BY <1>2, <1>7, VaultOf DEF ValidOrganization, ParentsExist
<1>9. Acyclic(w)
  BY <1>2, <1>5, <1>7, VaultOf, RenamedFolderKeepsTree DEF ValidOrganization
<1>10. ValidOrganization(w)
  BY <1>1, <1>4, <1>5, <1>7, <1>8, <1>9, VaultOf, FolderChangeKeepsOrganization
<1> QED
  BY <1>2, <1>5, <1>6, <1>10, SavesKeepsInvariant

LEMMA MoveFolderKeepsInvariant ==
    ASSUME IInv, NEW d \in Devices, MoveFolder(d)
    PROVE  IInv'
<1> DEFINE Data(f, parent) == [parent |-> parent, name |-> vault[d].folders[f].data.name]
<1>1. PICK f \in Folders, parent \in Folders \union {None} :
          /\ Expects(d, f, vault[d].folders)
          /\ parent \in Live(vault[d].folders) \union {None}
          /\ MoveKeepsTree(vault[d], f, parent)
          /\ \A g \in Live(vault[d].folders) \ {f} :
                 vault[d].folders[g].data # Data(f, parent)
          /\ Saves(d, WithFolder(vault[d], f,
                          Restamped(vault[d].folders[f], d, Data(f, parent)), d))
  BY DEF MoveFolder
<1> DEFINE item == Restamped(vault[d].folders[f], d, Data(f, parent))
           w == WithFolder(vault[d], f, item, d)
<1>2. /\ f \in Live(vault[d].folders)
      /\ IsVersionVector(vault[d].folders[f].vector)
      /\ vault[d].folders[f].data \in FolderData
      /\ UNCHANGED form \/ form' = None
  BY <1>1, VaultOf, ExpectsItem, NoneAssumption
<1>3. Data(f, parent) \in FolderData /\ Data(f, parent).parent = parent
  BY <1>2 DEF FolderData
<1> HIDE DEF Data
<1>4. IsItem(item, FolderData) /\ item.data = Data(f, parent)
  BY <1>2, <1>3, RestampedIsItem
<1> HIDE DEF item
<1>5. /\ IsVault(w) /\ w.entries = vault[d].entries /\ w.tags = vault[d].tags
      /\ w.folders = With(vault[d].folders, f, item)
  BY <1>4, VaultOf, WithFolderIsVault
<1>6. Saves(d, w)
  BY <1>1 DEF item
<1> HIDE DEF w
<1>7. item.data # None /\ item.data.parent = parent
  BY <1>3, <1>4, NoneAssumption
<1>8. None \notin Live(vault[d].folders)
  BY VaultOf, NoneAssumption DEF Live, AreItems
<1>9. Acyclic(w)
  BY <1>1, <1>2, <1>5, <1>7, <1>8, VaultOf, MovedFolderKeepsTree
     DEF ValidOrganization
<1>10. ValidOrganization(w)
  BY <1>1, <1>4, <1>5, <1>7, <1>9, VaultOf, FolderChangeKeepsOrganization
<1> QED
  BY <1>2, <1>5, <1>6, <1>10, SavesKeepsInvariant

LEMMA RemoveFolderKeepsInvariant ==
    ASSUME IInv, NEW d \in Devices, RemoveFolder(d)
    PROVE  IInv'
<1>1. PICK f \in Folders :
          /\ Expects(d, f, vault[d].folders)
          /\ \A e \in Live(vault[d].entries) : vault[d].entries[e].data.folder # f
          /\ \A g \in Live(vault[d].folders) : Parent(vault[d], g) # f
          /\ Saves(d, WithFolder(vault[d], f,
                          Tombstone(vault[d], vault[d].folders[f], d), d))
  BY DEF RemoveFolder
<1> DEFINE item == Restamped(vault[d].folders[f], d, None)
           w == WithFolder(vault[d], f, item, d)
<1>2. /\ IsVersionVector(vault[d].folders[f].vector)
      /\ UNCHANGED form \/ form' = None
  BY <1>1, VaultOf, ExpectsItem, NoneAssumption
<1>3. IsItem(item, FolderData) /\ item.data = None
  BY <1>2, RestampedIsItem
<1> HIDE DEF item
<1>4. /\ IsVault(w) /\ w.entries = vault[d].entries /\ w.tags = vault[d].tags
      /\ w.folders = With(vault[d].folders, f, item)
  BY <1>3, VaultOf, WithFolderIsVault
<1>5. Saves(d, w)
  BY <1>1 DEF item, Tombstone
<1> HIDE DEF w
<1>6. ValidOrganization(w)
  BY <1>1, <1>3, <1>4, VaultOf, NoneAssumption, RemovedFolderKeepsOrganization
<1> QED
  BY <1>2, <1>4, <1>5, <1>6, SavesKeepsInvariant

LEMMA ResolveKeepsInvariant ==
    ASSUME IInv, NEW d \in Devices, Resolve(d)
    PROVE  IInv'
<1>1. PICK kept \in SUBSET (MayKeep(vault[d].entries, remote.entries)
                             \union MayKeep(vault[d].folders, remote.folders)
                             \union MayKeep(vault[d].tags, remote.tags)) :
          /\ ValidOrganization(Resolved(vault[d], remote, kept, d))
          /\ Saves(d, Resolved(vault[d], remote, kept, d))
  BY DEF Resolve
<1>2. IsVault(vault[d]) /\ IsVault(remote)
  BY VaultOf DEF IInv, TypeOK, Everywhere
<1>3. AllReviewable(vault[d], remote) /\ UNCHANGED form
  BY DEF Resolve
<1>4. IsVault(Resolved(vault[d], remote, kept, d))
  BY <1>2, <1>3, ResolvedIsVault
<1> QED
  BY <1>1, <1>3, <1>4, SavesKeepsInvariant

\* No vault is new when the remote one is taken over, or the local one arrives.
LEMMA TransferKeepsInvariant ==
    ASSUME IInv, NEW d \in Devices, AcceptRemote(d) \/ Upload(d)
    PROVE  IInv'
<1>1. Everywhere' \subseteq Everywhere /\ DOMAIN vault' = Devices
  BY DEF AcceptRemote, Upload, Everywhere, IInv, TypeOK
<1>2. VaultsStayOrganized'
  BY <1>1 DEF VaultsStayOrganized, IInv
<1>3. \A v \in Everywhere' : IsVault(v)
  BY <1>1 DEF IInv, TypeOK
<1>4. UNCHANGED <<form, changes, lost>>
  BY DEF AcceptRemote, Upload
<1> QED
  BY <1>1, <1>2, <1>3, <1>4 DEF IInv, TypeOK

\* A form shows an item of a vault.
LEMMA OpenFormKeepsInvariant ==
    ASSUME IInv, NEW d \in Devices, OpenForm(d)
    PROVE  IInv'
<1>1. PICK i, item :
          /\ i \in Entries \union Folders \union Tags
          /\ form' = [device |-> d, id |-> i, item |-> item]
          /\ IsVersionVector(item.vector)
  <2>1. CASE \E e \in Live(vault[d].entries) :
                 form' = [device |-> d, id |-> e, item |-> vault[d].entries[e]]
    <3>1. PICK e \in Live(vault[d].entries) :
              form' = [device |-> d, id |-> e, item |-> vault[d].entries[e]]
      BY <2>1
    <3>2. e \in Entries /\ IsVersionVector(vault[d].entries[e].vector)
      BY VaultOf DEF Live, AreItems, IsItem
    <3> QED
      BY <3>1, <3>2
  <2>2. CASE \E f \in Live(vault[d].folders) :
                 form' = [device |-> d, id |-> f, item |-> vault[d].folders[f]]
    <3>1. PICK f \in Live(vault[d].folders) :
              form' = [device |-> d, id |-> f, item |-> vault[d].folders[f]]
      BY <2>2
    <3>2. f \in Folders /\ IsVersionVector(vault[d].folders[f].vector)
      BY VaultOf DEF Live, AreItems, IsItem
    <3> QED
      BY <3>1, <3>2
  <2>3. CASE \E t \in Live(vault[d].tags) :
                 form' = [device |-> d, id |-> t, item |-> vault[d].tags[t]]
    <3>1. PICK t \in Live(vault[d].tags) :
              form' = [device |-> d, id |-> t, item |-> vault[d].tags[t]]
      BY <2>3
    <3>2. t \in Tags /\ IsVersionVector(vault[d].tags[t].vector)
      BY VaultOf DEF Live, AreItems, IsItem
    <3> QED
      BY <3>1, <3>2
  <2> QED
    BY <2>1, <2>2, <2>3 DEF OpenForm
<1>2. Everywhere' = Everywhere /\ UNCHANGED <<vault, changes, lost>>
  BY DEF OpenForm, Everywhere
<1>3. VaultsStayOrganized'
  BY <1>2 DEF VaultsStayOrganized, IInv
<1>4. /\ form'.device \in Devices
      /\ form'.id \in Entries \union Folders \union Tags
      /\ IsVersionVector(form'.item.vector)
  BY <1>1
<1> QED
  BY <1>2, <1>3, <1>4 DEF IInv, TypeOK

\* A new vault has what a template holds, and no entries.
LEMMA InitEstablishesInvariant == Init => IInv
<1> SUFFICES ASSUME Init PROVE IInv
  OBVIOUS
<1>1. PICK d \in Devices, template \in Templates :
          LET first == [x \in {d} |-> 1]
              Made(items) == [i \in DOMAIN items |->
                                 [vector |-> first, data |-> items[i]]]
          IN  remote = [vector |-> first, entries |-> Made(<<>>),
                        folders |-> Made(template.folders),
                        tags |-> Made(template.tags)]
  BY DEF Init
<1> DEFINE first == [x \in {d} |-> 1]
           Made(items) == [i \in DOMAIN items |->
                              [vector |-> first, data |-> items[i]]]
           entries == Made(<<>>)
           folders == Made(template.folders)
           tags == Made(template.tags)
<1>2. IsVersionVector(first)
  BY DEF IsVersionVector
<1> HIDE DEF first
<1>3. ASSUME NEW Data, NEW data \in Data
      PROVE  IsItem([vector |-> first, data |-> data], Data)
  BY <1>2 DEF IsItem
<1>4. ASSUME NEW items, NEW Ids, NEW Data, DOMAIN items \subseteq Ids,
             \A i \in DOMAIN items : items[i] \in Data
      PROVE  AreItems(Made(items), Ids, Data)
  <2>1. \A i \in DOMAIN items : IsItem([vector |-> first, data |-> items[i]], Data)
    BY <1>3, <1>4
  <2> QED
    BY <1>4, <2>1 DEF AreItems
<1>5. AreItems(entries, Entries, EntryData)
  <2>1. DOMAIN <<>> = {}
    OBVIOUS
  <2> QED
    BY <2>1 DEF AreItems
<1>6. AreItems(folders, Folders, FolderData)
  BY <1>4, TemplatesAssumption
<1>7. AreItems(tags, Tags, Names)
  BY <1>4, TemplatesAssumption
<1>8. remote = [vector |-> first, entries |-> entries,
                folders |-> folders, tags |-> tags]
  BY <1>1 DEF first
<1> HIDE DEF entries, folders, tags
<1>9. IsVault(remote)
  BY <1>2, <1>5, <1>6, <1>7, <1>8 DEF IsVault
<1>10. Everywhere = {remote} /\ DOMAIN vault = Devices
  BY DEF Init, Everywhere
<1>11. VaultsStayOrganized
  BY <1>10 DEF Init, VaultsStayOrganized
<1> QED
  BY <1>9, <1>10, <1>11, BoundsAssumption DEF Init, IInv, TypeOK

LEMMA StepKeepsInvariant == IInv /\ [Next]_vars => IInv'
<1> SUFFICES ASSUME IInv, [Next]_vars PROVE IInv'
  OBVIOUS
<1>1. CASE UNCHANGED vars
  BY <1>1 DEF vars, IInv, TypeOK, VaultsStayOrganized, Everywhere
<1>2. ASSUME NEW d \in Devices,
             AddEntry(d) \/ UpdateEntry(d) \/ RemoveEntry(d)
      PROVE  IInv'
  BY <1>2, AddEntryKeepsInvariant, UpdateEntryKeepsInvariant,
     RemoveEntryKeepsInvariant
<1>3. ASSUME NEW d \in Devices,
             AddFolder(d) \/ UpdateFolder(d) \/ MoveFolder(d) \/ RemoveFolder(d)
      PROVE  IInv'
  BY <1>3, AddFolderKeepsInvariant, UpdateFolderKeepsInvariant,
     MoveFolderKeepsInvariant, RemoveFolderKeepsInvariant
<1>4. ASSUME NEW d \in Devices, AddTag(d) \/ UpdateTag(d) \/ RemoveTag(d)
      PROVE  IInv'
  BY <1>4, AddTagKeepsInvariant, UpdateTagKeepsInvariant, RemoveTagKeepsInvariant
<1>5. ASSUME NEW d \in Devices, OpenForm(d)
      PROVE  IInv'
  BY <1>5, OpenFormKeepsInvariant
<1>6. ASSUME NEW d \in Devices, AcceptRemote(d) \/ Resolve(d) \/ Upload(d)
      PROVE  IInv'
  BY <1>6, TransferKeepsInvariant, ResolveKeepsInvariant
<1> QED
  BY <1>1, <1>2, <1>3, <1>4, <1>5, <1>6 DEF Next

\* Every vault, item, form and counter is of its kind, for any number of
\* devices, items and changes.
THEOREM TypeCorrect == Spec => []TypeOK
<1>1. IInv => TypeOK
  BY DEF IInv
<1> QED
  BY InitEstablishesInvariant, StepKeepsInvariant, <1>1, PTL DEF Spec

\* However the changes of the devices and the choices of their resolutions are
\* mixed, no vault anywhere holds an entry in a folder or with a tag that is
\* gone, two folders or tags that cannot be told apart, or folders that contain
\* each other: every use case checks just enough, with what the resolution
\* validates, for any number of folders, tags, entries and devices.
THEOREM VaultsAlwaysOrganized == Spec => []VaultsStayOrganized
<1>1. IInv => VaultsStayOrganized
  BY DEF IInv
<1> QED
  BY InitEstablishesInvariant, StepKeepsInvariant, <1>1, PTL DEF Spec

-----------------------------------------------------------------------------
(* Versions.  A vault that is ahead of another has every item of the other,   *)
(* the same or ahead, and a vector belongs to one vault or one item only: so  *)
(* a device that is behind has nothing of its own to lose, and an item whose  *)
(* vector a form remembers is the item that the form shows.  The reason is    *)
(* that nobody counts further for a device than the device itself.            *)

Ids == Entries \union Folders \union Tags

Has(v, id) ==
    IF id \in Entries THEN id \in DOMAIN v.entries
    ELSE IF id \in Folders THEN id \in DOMAIN v.folders ELSE id \in DOMAIN v.tags

\* How often a device changed the item that a vault shows.
Count(v, id, d) == IF Has(v, id) THEN Component(ItemOf(v, id).vector, d) ELSE 0

SameVersion(a, b) == AtMost(a.vector, b.vector) /\ AtMost(b.vector, a.vector)

OlderVersion(a, b) == AtMost(a.vector, b.vector) /\ ~AtMost(b.vector, a.vector)

\* Vault w has what v has, or later versions of it.
Continues(v, w) ==
    \A id \in Ids : Has(v, id) =>
        /\ Has(w, id)
        /\ ItemOf(v, id) = ItemOf(w, id) \/ OlderVersion(ItemOf(v, id), ItemOf(w, id))

VaultsAreOrdered ==
    \A v, w \in Everywhere :
        /\ AtMost(v.vector, w.vector) => Continues(v, w)
        /\ SameVersion(v, w) => v = w

OwnCountsAreHighest ==
    \A v \in Everywhere, d \in Devices :
        /\ Component(v.vector, d) <= Component(vault[d].vector, d)
        /\ \A id \in Ids : Count(v, id, d) <= Count(vault[d], id, d)

ItemVersionsAreUnique ==
    \A v, w \in Everywhere, id \in Ids :
        /\ Has(v, id) /\ Has(w, id)
        /\ SameVersion(ItemOf(v, id), ItemOf(w, id))
        => ItemOf(v, id) = ItemOf(w, id)

FormShowsAVersion ==
    form # None =>
        /\ Has(vault[form.device], form.id)
        /\ \A d \in Devices :
               Component(form.item.vector, d) <= Count(vault[d], form.id, d)
        /\ \A v \in Everywhere :
               Has(v, form.id) /\ SameVersion(ItemOf(v, form.id), form.item)
               => ItemOf(v, form.id) = form.item

VersionInv == /\ VaultsAreOrdered
              /\ OwnCountsAreHighest
              /\ ItemVersionsAreUnique
              /\ FormShowsAVersion

\* A later vector counts each device as far as the one that a device stamped,
\* and that device once more.
Stamps(d, a, b) ==
    \A x \in Devices :
        Component(b, x) = IF x = d THEN Component(a, x) + 1 ELSE Component(a, x)

\* What a change or a resolution of device d makes of the remote vault: each
\* item is kept or stamped, and one that the remote vault does not have is new.
Advances(d, w) ==
    /\ IsVault(w)
    /\ AtMost(vault[d].vector, remote.vector)
    /\ Stamps(d, remote.vector, w.vector)
    /\ \A id \in Ids : Has(remote, id) =>
           /\ Has(w, id)
           /\ \/ ItemOf(w, id) = ItemOf(remote, id)
              \/ Stamps(d, ItemOf(remote, id).vector, ItemOf(w, id).vector)
    /\ \A id \in Ids : Has(w, id) /\ ~Has(remote, id) =>
           /\ \A v \in Everywhere : ~Has(v, id)
           /\ \A x \in Devices \ {d} : Component(ItemOf(w, id).vector, x) = 0

\* The items of a vault have vectors.
LEMMA ItemOfVault ==
    ASSUME NEW v, IsVault(v), NEW id \in Ids
    PROVE  /\ Has(v, id) => IsVersionVector(ItemOf(v, id).vector)
           /\ Has(v, id) => \A x : Component(ItemOf(v, id).vector, x) \in Nat
           /\ \A x : Count(v, id, x) \in Nat
<1>1. Has(v, id) => IsVersionVector(ItemOf(v, id).vector)
  BY DEF Has, ItemOf, Ids, IsVault, AreItems, IsItem
<1>2. Has(v, id) => \A x : Component(ItemOf(v, id).vector, x) \in Nat
  BY <1>1, ComponentType
<1> QED
  BY <1>1, <1>2 DEF Count

\* The order of the versions is transitive, and only grows the counts.
LEMMA ContinuesIsTransitive ==
    ASSUME NEW u, IsVault(u), NEW v, IsVault(v), NEW w, IsVault(w),
           Continues(u, v), Continues(v, w)
    PROVE  Continues(u, w)
<1>1. ASSUME NEW id \in Ids, Has(u, id)
      PROVE  /\ Has(w, id)
             /\ \/ ItemOf(u, id) = ItemOf(w, id)
                \/ OlderVersion(ItemOf(u, id), ItemOf(w, id))
  <2> DEFINE a == ItemOf(u, id)
             b == ItemOf(v, id)
             c == ItemOf(w, id)
  <2>1. Has(v, id) /\ (a = b \/ OlderVersion(a, b))
    BY <1>1 DEF Continues
  <2>2. Has(w, id) /\ (b = c \/ OlderVersion(b, c))
    BY <2>1 DEF Continues
  <2>3. \A x : /\ Component(a.vector, x) \in Nat
               /\ Component(b.vector, x) \in Nat
               /\ Component(c.vector, x) \in Nat
    BY <1>1, <2>1, <2>2, ItemOfVault
  <2> HIDE DEF a, b, c
  <2>4. a = c \/ OlderVersion(a, c)
    BY <2>1, <2>2, <2>3 DEF OlderVersion, AtMost
  <2> QED
    BY <2>2, <2>4 DEF a, c
<1> QED
  BY <1>1 DEF Continues

LEMMA ContinuesCounts ==
    ASSUME NEW v, IsVault(v), NEW w, IsVault(w), Continues(v, w),
           NEW id \in Ids, NEW x \in Devices
    PROVE  Count(v, id, x) <= Count(w, id, x)
<1>1. CASE Has(v, id)
  <2>1. Has(w, id) /\ (\/ ItemOf(v, id) = ItemOf(w, id)
                       \/ OlderVersion(ItemOf(v, id), ItemOf(w, id)))
    BY <1>1 DEF Continues
  <2>2. /\ Component(ItemOf(v, id).vector, x) \in Nat
        /\ Component(ItemOf(w, id).vector, x) \in Nat
    BY <1>1, <2>1, ItemOfVault
  <2>3. Component(ItemOf(v, id).vector, x) <= Component(ItemOf(w, id).vector, x)
    BY <2>1, <2>2 DEF OlderVersion, AtMost
  <2> QED
    BY <1>1, <2>1, <2>3 DEF Count
<1>2. CASE ~Has(v, id)
  <2>1. Count(v, id, x) = 0 /\ Count(w, id, x) \in Nat
    BY <1>2, ItemOfVault DEF Count
  <2> QED
    BY <2>1
<1> QED
  BY <1>1, <1>2

\* A vector that is stamped is ahead of the one that it stamps.
LEMMA StampsAreAhead ==
    ASSUME NEW d \in Devices, NEW a, IsVersionVector(a),
           NEW b, IsVersionVector(b), Stamps(d, a, b)
    PROVE  AtMost(a, b) /\ ~AtMost(b, a)
<1>1. \A x : Component(a, x) \in Nat /\ Component(b, x) \in Nat
  BY ComponentType
<1> QED
  BY <1>1 DEF Stamps, AtMost

\* A vault that is saved is ahead of every vault that the remote one is ahead
\* of, and of no other; no other vault is ahead of it.
LEMMA AdvanceKeepsOrder ==
    ASSUME IInv, VersionInv, NEW d \in Devices, NEW w, Advances(d, w)
    PROVE  /\ \A v \in Everywhere :
                  /\ ~AtMost(w.vector, v.vector)
                  /\ Component(v.vector, d) <= Component(w.vector, d)
                  /\ AtMost(v.vector, w.vector) => Continues(v, w)
           /\ Continues(remote, w) /\ Continues(vault[d], w)
<1>1. /\ \A v \in Everywhere : IsVault(v)
      /\ IsVault(w) /\ IsVault(remote) /\ IsVault(vault[d])
      /\ remote \in Everywhere /\ vault[d] \in Everywhere
  BY DEF IInv, TypeOK, Everywhere, Advances
<1>2. \A v \in Everywhere : \A x : Component(v.vector, x) \in Nat
  BY <1>1, ComponentType DEF IsVault
<1>3. \A x : Component(w.vector, x) \in Nat
  BY <1>1, ComponentType DEF IsVault
<1>4. \A v \in Everywhere : Component(v.vector, d) <= Component(vault[d].vector, d)
  BY DEF VersionInv, OwnCountsAreHighest
<1>5. AtMost(vault[d].vector, remote.vector) /\ Stamps(d, remote.vector, w.vector)
  BY DEF Advances
<1>6. Component(vault[d].vector, d) <= Component(remote.vector, d)
  BY <1>5 DEF AtMost
<1>7. Component(w.vector, d) = Component(remote.vector, d) + 1
  BY <1>5 DEF Stamps
<1>8. ASSUME NEW v \in Everywhere
      PROVE  /\ Component(v.vector, d) <= Component(remote.vector, d)
             /\ Component(v.vector, d) < Component(w.vector, d)
  BY <1>1, <1>2, <1>3, <1>4, <1>6, <1>7
<1>9. ASSUME NEW v \in Everywhere PROVE ~AtMost(w.vector, v.vector)
  BY <1>2, <1>3, <1>8 DEF AtMost
<1>10. ASSUME NEW v \in Everywhere, AtMost(v.vector, w.vector)
       PROVE  AtMost(v.vector, remote.vector)
  BY <1>5, <1>8, <1>10 DEF AtMost, Stamps
<1>11. Continues(remote, w)
  <2>1. ASSUME NEW id \in Ids, Has(remote, id)
        PROVE  /\ Has(w, id)
               /\ \/ ItemOf(remote, id) = ItemOf(w, id)
                  \/ OlderVersion(ItemOf(remote, id), ItemOf(w, id))
    <3>1. Has(w, id) /\ (\/ ItemOf(w, id) = ItemOf(remote, id)
                         \/ Stamps(d, ItemOf(remote, id).vector, ItemOf(w, id).vector))
      BY <2>1 DEF Advances
    <3>2. /\ IsVersionVector(ItemOf(remote, id).vector)
          /\ IsVersionVector(ItemOf(w, id).vector)
      BY <1>1, <2>1, <3>1, ItemOfVault
    <3> QED
      BY <3>1, <3>2, StampsAreAhead DEF OlderVersion
  <2> QED
    BY <2>1 DEF Continues
<1>12. ASSUME NEW v \in Everywhere, AtMost(v.vector, remote.vector)
       PROVE  Continues(v, w)
  <2>1. Continues(v, remote)
    BY <1>1, <1>12 DEF VersionInv, VaultsAreOrdered
  <2> QED
    BY <1>1, <1>11, <2>1, ContinuesIsTransitive
<1>13. \A v \in Everywhere : AtMost(v.vector, w.vector) => Continues(v, w)
  BY <1>10, <1>12
<1>14. Continues(vault[d], w)
  BY <1>1, <1>5, <1>12
<1>15. \A v \in Everywhere : Component(v.vector, d) <= Component(w.vector, d)
  BY <1>2, <1>3, <1>8
<1> QED
  BY <1>9, <1>11, <1>13, <1>14, <1>15

\* How the items of a saved vault relate to those of every other vault.
LEMMA AdvancedItems ==
    ASSUME IInv, VersionInv, NEW d \in Devices, NEW w, Advances(d, w),
           NEW id \in Ids, Has(w, id)
    PROVE  \/ Has(remote, id) /\ ItemOf(w, id) = ItemOf(remote, id)
           \/ /\ Has(remote, id)
              /\ \A v \in Everywhere : Count(v, id, d) < Count(w, id, d)
              /\ Count(vault[d], id, d) < Count(w, id, d)
              /\ \A x \in Devices \ {d} : Count(w, id, x) = Count(remote, id, x)
           \/ /\ \A v \in Everywhere : ~Has(v, id)
              /\ \A x \in Devices \ {d} : Count(w, id, x) = 0
<1>1. /\ \A v \in Everywhere : IsVault(v)
      /\ IsVault(w) /\ IsVault(remote) /\ IsVault(vault[d])
      /\ remote \in Everywhere /\ vault[d] \in Everywhere
  BY DEF IInv, TypeOK, Everywhere, Advances
<1>2. CASE Has(remote, id)
  <2>1. CASE ItemOf(w, id) = ItemOf(remote, id)
    BY <1>2, <2>1
  <2>2. CASE Stamps(d, ItemOf(remote, id).vector, ItemOf(w, id).vector)
    <3>1. \A x \in Devices :
              Count(w, id, x) = IF x = d THEN Count(remote, id, x) + 1
                                         ELSE Count(remote, id, x)
      BY <1>2, <2>2 DEF Stamps, Count
    <3>2. AtMost(vault[d].vector, remote.vector)
      BY DEF Advances
    <3>3. Continues(vault[d], remote)
      BY <1>1, <3>2 DEF VersionInv, VaultsAreOrdered
    <3>4. Count(vault[d], id, d) <= Count(remote, id, d)
      BY <1>1, <3>3, ContinuesCounts
    <3>5. \A v \in Everywhere : Count(v, id, d) <= Count(vault[d], id, d)
      BY DEF VersionInv, OwnCountsAreHighest
    <3>6. \A v \in Everywhere : Count(v, id, d) \in Nat
      BY <1>1, ItemOfVault
    <3>7. Count(w, id, d) = Count(remote, id, d) + 1
      BY <3>1
    <3>8. Count(remote, id, d) \in Nat /\ Count(vault[d], id, d) \in Nat
      BY <1>1, <3>6
    <3>9. Count(vault[d], id, d) < Count(w, id, d)
      BY <3>4, <3>7, <3>8
    <3>10. ASSUME NEW v \in Everywhere PROVE Count(v, id, d) < Count(w, id, d)
      <4>1. Count(v, id, d) \in Nat /\ Count(v, id, d) <= Count(vault[d], id, d)
        BY <3>5, <3>6
      <4> QED
        BY <3>4, <3>7, <3>8, <4>1
    <3> QED
      BY <1>2, <3>1, <3>9, <3>10
  <2> QED
    BY <1>2, <2>1, <2>2 DEF Advances
<1>3. CASE ~Has(remote, id)
  BY <1>3 DEF Advances, Count
<1> QED
  BY <1>2, <1>3

\* A vault that is saved keeps the order of the versions.
LEMMA AdvanceKeepsVersions ==
    ASSUME IInv, VersionInv, NEW d \in Devices, NEW w, Advances(d, w),
           Saves(d, w), UNCHANGED form \/ form' = None
    PROVE  VersionInv'
<1>1. /\ \A v \in Everywhere : IsVault(v)
      /\ IsVault(w) /\ IsVault(remote) /\ IsVault(vault[d])
      /\ remote \in Everywhere /\ vault[d] \in Everywhere
      /\ \A x \in Devices : vault[x] \in Everywhere
  BY DEF IInv, TypeOK, Everywhere, Advances
<1>2. /\ Everywhere' \subseteq Everywhere \union {w}
      /\ vault'[d] = w
      /\ \A x \in Devices \ {d} : vault'[x] = vault[x]
  BY DEF Saves, Everywhere, IInv, TypeOK
<1>3. /\ \A v \in Everywhere :
             /\ ~AtMost(w.vector, v.vector)
             /\ Component(v.vector, d) <= Component(w.vector, d)
             /\ AtMost(v.vector, w.vector) => Continues(v, w)
      /\ Continues(vault[d], w)
  BY AdvanceKeepsOrder
<1>4. \A v \in Everywhere, x \in Devices :
          Component(v.vector, x) <= Component(vault[x].vector, x)
  BY DEF VersionInv, OwnCountsAreHighest
<1>5. \A v \in Everywhere, x \in Devices, id \in Ids :
          Count(v, id, x) <= Count(vault[x], id, x)
  BY DEF VersionInv, OwnCountsAreHighest
<1>6. \A v \in Everywhere, x \in Devices, id \in Ids : Count(v, id, x) \in Nat
  BY <1>1, ItemOfVault
<1>7. \A x \in Devices, id \in Ids : Count(w, id, x) \in Nat
  BY <1>1, ItemOfVault
<1>8. \A id \in Ids, x \in Devices : Count(vault[d], id, x) <= Count(w, id, x)
  BY <1>1, <1>3, ContinuesCounts
<1>9. VaultsAreOrdered'
  <2>1. ASSUME NEW u \in Everywhere', NEW v \in Everywhere'
        PROVE  /\ AtMost(u.vector, v.vector) => Continues(u, v)
               /\ SameVersion(u, v) => u = v
    <3>1. CASE u \in Everywhere /\ v \in Everywhere
      BY <3>1 DEF VersionInv, VaultsAreOrdered
    <3>2. CASE u \in Everywhere /\ v = w
      BY <1>3, <3>2 DEF SameVersion
    <3>3. CASE u = w /\ v \in Everywhere
      BY <1>3, <3>3 DEF SameVersion
    <3>4. CASE u = w /\ v = w
      BY <3>4 DEF Continues
    <3> QED
      BY <1>2, <3>1, <3>2, <3>3, <3>4
  <2> QED
    BY <2>1 DEF VaultsAreOrdered
<1>10. OwnCountsAreHighest'
  <2>1. ASSUME NEW v \in Everywhere', NEW x \in Devices
        PROVE  Component(v.vector, x) <= Component(vault'[x].vector, x)
    <3>1. CASE v \in Everywhere
      BY <1>2, <1>3, <1>4, <3>1
    <3>2. CASE v = w /\ x = d
      <4>1. Component(w.vector, d) \in Nat
        BY <1>1, ComponentType DEF IsVault
      <4> QED
        BY <1>2, <3>2, <4>1
    <3>3. CASE v = w /\ x # d
      <4>1. Component(w.vector, x) = Component(remote.vector, x)
        BY <3>3 DEF Advances, Stamps
      <4> QED
        BY <1>1, <1>2, <1>4, <3>3, <4>1
    <3> QED
      BY <1>2, <3>1, <3>2, <3>3
  <2>2. ASSUME NEW v \in Everywhere', NEW x \in Devices, NEW id \in Ids
        PROVE  Count(v, id, x) <= Count(vault'[x], id, x)
    <3>1. CASE v \in Everywhere /\ x # d
      BY <1>2, <1>5, <3>1
    <3>2. CASE v \in Everywhere /\ x = d
      <4>1. /\ Count(v, id, d) <= Count(vault[d], id, d)
            /\ Count(vault[d], id, d) <= Count(w, id, d)
            /\ Count(v, id, d) \in Nat /\ Count(vault[d], id, d) \in Nat
            /\ Count(w, id, d) \in Nat
        BY <1>1, <1>5, <1>6, <1>7, <1>8, <3>2
      <4>2. Count(v, id, d) <= Count(w, id, d)
        BY <4>1
      <4> QED
        BY <1>2, <3>2, <4>2
    <3>3. CASE v = w /\ x = d
      <4>1. Count(w, id, d) <= Count(w, id, d)
        BY <1>7
      <4> QED
        BY <1>2, <3>3, <4>1
    <3>4. CASE v = w /\ x # d
      <4>1. vault'[x] = vault[x] /\ Count(remote, id, x) <= Count(vault[x], id, x)
        BY <1>1, <1>2, <1>5, <3>4
      <4>2. Count(vault[x], id, x) \in Nat
        BY <1>1, <1>6
      <4>3. CASE Has(w, id)
        <5>1. Count(w, id, x) = Count(remote, id, x) \/ Count(w, id, x) = 0
          <6>1. Has(remote, id) /\ ItemOf(w, id) = ItemOf(remote, id)
                => Count(w, id, x) = Count(remote, id, x)
            BY <4>3 DEF Count
          <6> QED
            BY <3>4, <4>3, <6>1, AdvancedItems
        <5> QED
          BY <3>4, <4>1, <4>2, <5>1
      <4>4. CASE ~Has(w, id)
        <5>1. Count(w, id, x) = 0
          BY <4>4 DEF Count
        <5> QED
          BY <3>4, <4>1, <4>2, <5>1
      <4> QED
        BY <4>3, <4>4
    <3> QED
      BY <1>2, <3>1, <3>2, <3>3, <3>4
  <2> QED
    BY <2>1, <2>2 DEF OwnCountsAreHighest
<1>11. ASSUME NEW v \in Everywhere, NEW id \in Ids, Has(v, id), Has(w, id),
              SameVersion(ItemOf(v, id), ItemOf(w, id))
       PROVE  ItemOf(v, id) = ItemOf(w, id)
  <2>1. \/ Has(remote, id) /\ ItemOf(w, id) = ItemOf(remote, id)
        \/ Count(v, id, d) < Count(w, id, d)
    BY <1>11, AdvancedItems
  <2>2. CASE Has(remote, id) /\ ItemOf(w, id) = ItemOf(remote, id)
    BY <1>1, <1>11, <2>2 DEF VersionInv, ItemVersionsAreUnique
  <2>3. CASE Count(v, id, d) < Count(w, id, d)
    <3>1. Count(w, id, d) <= Count(v, id, d)
      BY <1>11 DEF SameVersion, AtMost, Count
    <3>2. Count(v, id, d) \in Nat /\ Count(w, id, d) \in Nat
      BY <1>6, <1>7
    <3> QED
      BY <2>3, <3>1, <3>2
  <2> QED
    BY <2>1, <2>2, <2>3
<1>12. ItemVersionsAreUnique'
  <2>1. ASSUME NEW u \in Everywhere', NEW v \in Everywhere', NEW id \in Ids,
               Has(u, id), Has(v, id), SameVersion(ItemOf(u, id), ItemOf(v, id))
        PROVE  ItemOf(u, id) = ItemOf(v, id)
    <3>1. CASE u \in Everywhere /\ v \in Everywhere
      BY <2>1, <3>1 DEF VersionInv, ItemVersionsAreUnique
    <3>2. CASE u \in Everywhere /\ v = w
      BY <1>11, <2>1, <3>2
    <3>3. CASE u = w /\ v \in Everywhere
      <4>1. SameVersion(ItemOf(v, id), ItemOf(w, id))
        BY <2>1, <3>3 DEF SameVersion
      <4> QED
        BY <1>11, <2>1, <3>3, <4>1
    <3> QED
      BY <1>2, <3>1, <3>2, <3>3
  <2> QED
    BY <2>1 DEF ItemVersionsAreUnique
<1>13. FormShowsAVersion'
  <2>1. CASE form' = None
    BY <2>1 DEF FormShowsAVersion
  <2>2. CASE form' # None
    <3>1. form' = form /\ form # None
      BY <2>2
    <3> DEFINE id == form.id
    <3>2. form.device \in Devices /\ id \in Ids /\ IsVersionVector(form.item.vector)
      BY <3>1 DEF IInv, TypeOK, Ids
    <3>3. /\ Has(vault[form.device], id)
          /\ \A x \in Devices : Component(form.item.vector, x) <= Count(vault[x], id, x)
          /\ \A v \in Everywhere :
                 Has(v, id) /\ SameVersion(ItemOf(v, id), form.item)
                 => ItemOf(v, id) = form.item
      BY <3>1 DEF VersionInv, FormShowsAVersion
    <3>4. Has(vault'[form.device], id)
      <4>1. CASE form.device = d
        BY <1>2, <1>3, <3>2, <3>3, <4>1 DEF Continues
      <4>2. CASE form.device # d
        BY <1>2, <3>2, <3>3, <4>2
      <4> QED
        BY <4>1, <4>2
    <3>5. \A x \in Devices : Component(form.item.vector, x) \in Nat
      BY <3>2, ComponentType
    <3>6. ASSUME NEW x \in Devices
          PROVE  Component(form.item.vector, x) <= Count(vault'[x], id, x)
      <4>1. CASE x = d
        <5>1. /\ Component(form.item.vector, d) <= Count(vault[d], id, d)
              /\ Count(vault[d], id, d) <= Count(w, id, d)
              /\ Component(form.item.vector, d) \in Nat
              /\ Count(vault[d], id, d) \in Nat /\ Count(w, id, d) \in Nat
          BY <1>1, <1>6, <1>7, <1>8, <3>2, <3>3, <3>5
        <5>2. Component(form.item.vector, d) <= Count(w, id, d)
          BY <5>1
        <5> QED
          BY <1>2, <4>1, <5>2
      <4>2. CASE x # d
        BY <1>2, <3>3, <4>2
      <4> QED
        BY <4>1, <4>2
    <3>7. ASSUME Has(w, id), SameVersion(ItemOf(w, id), form.item)
          PROVE  ItemOf(w, id) = form.item
      <4>1. \/ Has(remote, id) /\ ItemOf(w, id) = ItemOf(remote, id)
            \/ Count(vault[d], id, d) < Count(w, id, d)
            \/ \A v \in Everywhere : ~Has(v, id)
        BY <3>2, <3>7, AdvancedItems
      <4>2. CASE Has(remote, id) /\ ItemOf(w, id) = ItemOf(remote, id)
        BY <1>1, <3>3, <3>7, <4>2
      <4>3. CASE Count(vault[d], id, d) < Count(w, id, d)
        <5>1. Count(w, id, d) <= Component(form.item.vector, d)
          BY <3>7 DEF SameVersion, AtMost, Count
        <5>2. /\ Component(form.item.vector, d) <= Count(vault[d], id, d)
              /\ Component(form.item.vector, d) \in Nat
              /\ Count(vault[d], id, d) \in Nat /\ Count(w, id, d) \in Nat
          BY <1>1, <1>6, <1>7, <3>2, <3>3, <3>5
        <5> QED
          BY <4>3, <5>1, <5>2
      <4>4. CASE \A v \in Everywhere : ~Has(v, id)
        BY <1>1, <3>2, <3>3, <4>4
      <4> QED
        BY <4>1, <4>2, <4>3, <4>4
    <3>8. ASSUME NEW v \in Everywhere', Has(v, id),
                 SameVersion(ItemOf(v, id), form.item)
          PROVE  ItemOf(v, id) = form.item
      BY <1>2, <3>3, <3>7, <3>8
    <3> QED
      BY <3>1, <3>4, <3>6, <3>8 DEF FormShowsAVersion
  <2> QED
    BY <2>1, <2>2
<1> QED
  BY <1>9, <1>10, <1>12, <1>13 DEF VersionInv

-----------------------------------------------------------------------------
(* Every change and every resolution is such an advance.                     *)

LEMMA IncrementStamps ==
    ASSUME NEW a, IsVersionVector(a), NEW d \in Devices
    PROVE  Stamps(d, a, IncrementVersionVector(a, d))
BY IncrementComponents DEF Stamps

LEMMA RestampedIsStamped ==
    ASSUME NEW d \in Devices, NEW data, NEW item, IsVersionVector(item.vector)
    PROVE  Stamps(d, item.vector, Restamped(item, d, data).vector)
BY IncrementStamps DEF Restamped

LEMMA NewItemCountsItsDevice ==
    ASSUME NEW v, NEW d \in Devices, NEW data, NEW x \in Devices \ {d}
    PROVE  Component(NewItem(v, d, data).vector, x) = 0
BY DEF NewItem, Component

\* One item is stamped, or new, and every other is kept.
LEMMA ChangeAdvances ==
    ASSUME IInv, NEW d \in Devices, vault[d] = remote, NEW w, IsVault(w),
           w.vector = IncrementVersionVector(remote.vector, d), NEW id \in Ids,
           \A j \in Ids \ {id} : /\ Has(w, j) <=> Has(remote, j)
                                 /\ Has(remote, j) => ItemOf(w, j) = ItemOf(remote, j),
           Has(w, id),
           \/ /\ Has(remote, id)
              /\ Stamps(d, ItemOf(remote, id).vector, ItemOf(w, id).vector)
           \/ /\ \A v \in Everywhere : ~Has(v, id)
              /\ \A x \in Devices \ {d} : Component(ItemOf(w, id).vector, x) = 0
    PROVE  Advances(d, w)
<1>1. IsVersionVector(remote.vector)
  BY DEF IInv, TypeOK, Everywhere, IsVault
<1>2. Stamps(d, remote.vector, w.vector)
  BY <1>1, IncrementStamps
<1>3. \A x \in Devices : Component(remote.vector, x) \in Nat
  BY <1>1, ComponentType
<1>4. AtMost(vault[d].vector, remote.vector)
  BY <1>3 DEF AtMost
<1>5. remote \in Everywhere
  BY DEF Everywhere
<1>6. ASSUME NEW j \in Ids, Has(remote, j)
      PROVE  /\ Has(w, j)
             /\ \/ ItemOf(w, j) = ItemOf(remote, j)
                \/ Stamps(d, ItemOf(remote, j).vector, ItemOf(w, j).vector)
  BY <1>5, <1>6
<1>7. ASSUME NEW j \in Ids, Has(w, j), ~Has(remote, j)
      PROVE  /\ \A v \in Everywhere : ~Has(v, j)
             /\ \A x \in Devices \ {d} : Component(ItemOf(w, j).vector, x) = 0
  BY <1>7
<1> QED
  BY <1>2, <1>4, <1>6, <1>7 DEF Advances

LEMMA EntryAdvances ==
    ASSUME IInv, NEW d \in Devices, vault[d] = remote, NEW e \in Entries,
           NEW item, IsItem(item, EntryData),
           \/ /\ e \in DOMAIN vault[d].entries
              /\ Stamps(d, vault[d].entries[e].vector, item.vector)
           \/ /\ \A v \in Everywhere : e \notin DOMAIN v.entries
              /\ \A x \in Devices \ {d} : Component(item.vector, x) = 0
    PROVE  Advances(d, WithEntry(vault[d], e, item, d))
<1> DEFINE w == WithEntry(vault[d], e, item, d)
<1>1. /\ IsVault(w) /\ w.folders = remote.folders /\ w.tags = remote.tags
      /\ w.entries = With(remote.entries, e, item)
  BY VaultOf, WithEntryIsVault
<1>2. w.vector = IncrementVersionVector(remote.vector, d)
  BY DEF WithEntry
<1> HIDE DEF w
<1>3. \A v : Has(v, e) <=> e \in DOMAIN v.entries
  BY DEF Has
<1>4. \A v : ItemOf(v, e) = v.entries[e]
  BY DEF ItemOf
<1>5. Has(w, e) /\ ItemOf(w, e) = item
  BY <1>1, <1>3, <1>4 DEF With
<1>6. \A j \in Ids \ {e} :
          /\ Has(w, j) <=> Has(remote, j)
          /\ Has(remote, j) => ItemOf(w, j) = ItemOf(remote, j)
  BY <1>1 DEF With, Has, ItemOf
<1>7. e \in Ids
  BY DEF Ids
<1>8. \/ /\ Has(remote, e)
         /\ Stamps(d, ItemOf(remote, e).vector, ItemOf(w, e).vector)
      \/ /\ \A v \in Everywhere : ~Has(v, e)
         /\ \A x \in Devices \ {d} : Component(ItemOf(w, e).vector, x) = 0
  BY <1>3, <1>4, <1>5
<1>9. Advances(d, w)
  BY <1>1, <1>2, <1>5, <1>6, <1>7, <1>8, ChangeAdvances
<1> QED
  BY <1>9 DEF w

LEMMA FolderAdvances ==
    ASSUME IInv, NEW d \in Devices, vault[d] = remote, NEW f \in Folders,
           NEW item, IsItem(item, FolderData),
           \/ /\ f \in DOMAIN vault[d].folders
              /\ Stamps(d, vault[d].folders[f].vector, item.vector)
           \/ /\ \A v \in Everywhere : f \notin DOMAIN v.folders
              /\ \A x \in Devices \ {d} : Component(item.vector, x) = 0
    PROVE  Advances(d, WithFolder(vault[d], f, item, d))
<1> DEFINE w == WithFolder(vault[d], f, item, d)
<1>1. /\ IsVault(w) /\ w.entries = remote.entries /\ w.tags = remote.tags
      /\ w.folders = With(remote.folders, f, item)
  BY VaultOf, WithFolderIsVault
<1>2. w.vector = IncrementVersionVector(remote.vector, d)
  BY DEF WithFolder
<1> HIDE DEF w
<1>3. \A v : Has(v, f) <=> f \in DOMAIN v.folders
  BY IdentitiesAssumption DEF Has
<1>4. \A v : ItemOf(v, f) = v.folders[f]
  BY IdentitiesAssumption DEF ItemOf
<1>5. Has(w, f) /\ ItemOf(w, f) = item
  BY <1>1, <1>3, <1>4 DEF With
<1>6. \A j \in Ids \ {f} :
          /\ Has(w, j) <=> Has(remote, j)
          /\ Has(remote, j) => ItemOf(w, j) = ItemOf(remote, j)
  BY <1>1 DEF With, Has, ItemOf
<1>7. f \in Ids
  BY DEF Ids
<1>8. \/ /\ Has(remote, f)
         /\ Stamps(d, ItemOf(remote, f).vector, ItemOf(w, f).vector)
      \/ /\ \A v \in Everywhere : ~Has(v, f)
         /\ \A x \in Devices \ {d} : Component(ItemOf(w, f).vector, x) = 0
  BY <1>3, <1>4, <1>5
<1>9. Advances(d, w)
  BY <1>1, <1>2, <1>5, <1>6, <1>7, <1>8, ChangeAdvances
<1> QED
  BY <1>9 DEF w

LEMMA TagAdvances ==
    ASSUME IInv, NEW d \in Devices, vault[d] = remote, NEW t \in Tags,
           NEW item, IsItem(item, Names),
           \/ /\ t \in DOMAIN vault[d].tags
              /\ Stamps(d, vault[d].tags[t].vector, item.vector)
           \/ /\ \A v \in Everywhere : t \notin DOMAIN v.tags
              /\ \A x \in Devices \ {d} : Component(item.vector, x) = 0
    PROVE  Advances(d, WithTag(vault[d], t, item, d))
<1> DEFINE w == WithTag(vault[d], t, item, d)
<1>1. /\ IsVault(w) /\ w.entries = remote.entries /\ w.folders = remote.folders
      /\ w.tags = With(remote.tags, t, item)
  BY VaultOf, WithTagIsVault
<1>2. w.vector = IncrementVersionVector(remote.vector, d)
  BY DEF WithTag
<1> HIDE DEF w
<1>3. \A v : Has(v, t) <=> t \in DOMAIN v.tags
  BY IdentitiesAssumption DEF Has
<1>4. \A v : ItemOf(v, t) = v.tags[t]
  BY IdentitiesAssumption DEF ItemOf
<1>5. Has(w, t) /\ ItemOf(w, t) = item
  BY <1>1, <1>3, <1>4 DEF With
<1>6. \A j \in Ids \ {t} :
          /\ Has(w, j) <=> Has(remote, j)
          /\ Has(remote, j) => ItemOf(w, j) = ItemOf(remote, j)
  BY <1>1 DEF With, Has, ItemOf
<1>7. t \in Ids
  BY DEF Ids
<1>8. \/ /\ Has(remote, t)
         /\ Stamps(d, ItemOf(remote, t).vector, ItemOf(w, t).vector)
      \/ /\ \A v \in Everywhere : ~Has(v, t)
         /\ \A x \in Devices \ {d} : Component(ItemOf(w, t).vector, x) = 0
  BY <1>3, <1>4, <1>5
<1>9. Advances(d, w)
  BY <1>1, <1>2, <1>5, <1>6, <1>7, <1>8, ChangeAdvances
<1> QED
  BY <1>9 DEF w

LEMMA EntryChangesAdvance ==
    ASSUME IInv, NEW d \in Devices, AddEntry(d) \/ UpdateEntry(d) \/ RemoveEntry(d)
    PROVE  \E w : Saves(d, w) /\ Advances(d, w) /\ (UNCHANGED form \/ form' = None)
<1>1. CASE AddEntry(d)
  <2>1. PICK e \in Entries, data \in EntryData :
            /\ Adds(d)
            /\ \A v \in Everywhere : e \notin DOMAIN v.entries
            /\ Saves(d, WithEntry(vault[d], e, NewItem(vault[d], d, data), d))
    BY <1>1 DEF AddEntry
  <2> DEFINE item == NewItem(vault[d], d, data)
  <2>2. IsItem(item, EntryData) /\ \A x \in Devices \ {d} : Component(item.vector, x) = 0
    BY VaultOf, NewItemIsItem, NewItemCountsItsDevice
  <2>3. Advances(d, WithEntry(vault[d], e, item, d))
    <3> HIDE DEF item
    <3> QED
      BY <2>1, <2>2, EntryAdvances DEF Adds
  <2> QED
    BY <2>1, <2>3 DEF Adds
<1>2. CASE UpdateEntry(d) \/ RemoveEntry(d)
  <2>1. PICK e \in Entries, data \in EntryData \union {None} :
            /\ Expects(d, e, vault[d].entries)
            /\ Saves(d, WithEntry(vault[d], e,
                                  Restamped(vault[d].entries[e], d, data), d))
    BY <1>2 DEF UpdateEntry, RemoveEntry, Tombstone
  <2> DEFINE item == Restamped(vault[d].entries[e], d, data)
  <2>2. /\ e \in DOMAIN vault[d].entries
        /\ IsVersionVector(vault[d].entries[e].vector)
        /\ UNCHANGED form \/ form' = None
    BY <2>1, VaultOf, ExpectsItem, NoneAssumption DEF Live
  <2>3. IsItem(item, EntryData) /\ Stamps(d, vault[d].entries[e].vector, item.vector)
    BY <2>2, RestampedIsItem, RestampedIsStamped
  <2>4. Advances(d, WithEntry(vault[d], e, item, d))
    <3> HIDE DEF item
    <3> QED
      BY <2>1, <2>2, <2>3, EntryAdvances DEF Expects
  <2> QED
    BY <2>1, <2>2, <2>4
<1> QED
  BY <1>1, <1>2

LEMMA TagChangesAdvance ==
    ASSUME IInv, NEW d \in Devices, AddTag(d) \/ UpdateTag(d) \/ RemoveTag(d)
    PROVE  \E w : Saves(d, w) /\ Advances(d, w) /\ (UNCHANGED form \/ form' = None)
<1>1. CASE AddTag(d)
  <2>1. PICK t \in Tags, name \in Names :
            /\ Adds(d)
            /\ \A v \in Everywhere : t \notin DOMAIN v.tags
            /\ Saves(d, WithTag(vault[d], t, NewItem(vault[d], d, name), d))
    BY <1>1 DEF AddTag
  <2> DEFINE item == NewItem(vault[d], d, name)
  <2>2. IsItem(item, Names) /\ \A x \in Devices \ {d} : Component(item.vector, x) = 0
    BY VaultOf, NewItemIsItem, NewItemCountsItsDevice
  <2>3. Advances(d, WithTag(vault[d], t, item, d))
    <3> HIDE DEF item
    <3> QED
      BY <2>1, <2>2, TagAdvances DEF Adds
  <2> QED
    BY <2>1, <2>3 DEF Adds
<1>2. CASE UpdateTag(d) \/ RemoveTag(d)
  <2>1. PICK t \in Tags, name \in Names \union {None} :
            /\ Expects(d, t, vault[d].tags)
            /\ Saves(d, WithTag(vault[d], t,
                                Restamped(vault[d].tags[t], d, name), d))
    BY <1>2 DEF UpdateTag, RemoveTag, Tombstone
  <2> DEFINE item == Restamped(vault[d].tags[t], d, name)
  <2>2. /\ t \in DOMAIN vault[d].tags
        /\ IsVersionVector(vault[d].tags[t].vector)
        /\ UNCHANGED form \/ form' = None
    BY <2>1, VaultOf, ExpectsItem, NoneAssumption DEF Live
  <2>3. IsItem(item, Names) /\ Stamps(d, vault[d].tags[t].vector, item.vector)
    BY <2>2, RestampedIsItem, RestampedIsStamped
  <2>4. Advances(d, WithTag(vault[d], t, item, d))
    <3> HIDE DEF item
    <3> QED
      BY <2>1, <2>2, <2>3, TagAdvances DEF Expects
  <2> QED
    BY <2>1, <2>2, <2>4
<1> QED
  BY <1>1, <1>2

LEMMA FolderChangesAdvance ==
    ASSUME IInv, NEW d \in Devices,
           AddFolder(d) \/ UpdateFolder(d) \/ MoveFolder(d) \/ RemoveFolder(d)
    PROVE  \E w : Saves(d, w) /\ Advances(d, w) /\ (UNCHANGED form \/ form' = None)
<1>1. CASE AddFolder(d)
  <2>1. PICK f \in Folders, data \in FolderData :
            /\ Adds(d)
            /\ \A v \in Everywhere : f \notin DOMAIN v.folders
            /\ Saves(d, WithFolder(vault[d], f, NewItem(vault[d], d, data), d))
    BY <1>1 DEF AddFolder
  <2> DEFINE item == NewItem(vault[d], d, data)
  <2>2. IsItem(item, FolderData) /\ \A x \in Devices \ {d} : Component(item.vector, x) = 0
    BY VaultOf, NewItemIsItem, NewItemCountsItsDevice
  <2>3. Advances(d, WithFolder(vault[d], f, item, d))
    <3> HIDE DEF item
    <3> QED
      BY <2>1, <2>2, FolderAdvances DEF Adds
  <2> QED
    BY <2>1, <2>3 DEF Adds
<1>2. ASSUME NEW f \in Folders, NEW data \in FolderData \union {None},
             Expects(d, f, vault[d].folders),
             Saves(d, WithFolder(vault[d], f,
                                 Restamped(vault[d].folders[f], d, data), d))
      PROVE  \E w : Saves(d, w) /\ Advances(d, w) /\ (UNCHANGED form \/ form' = None)
  <2> DEFINE item == Restamped(vault[d].folders[f], d, data)
  <2>1. /\ f \in DOMAIN vault[d].folders
        /\ IsVersionVector(vault[d].folders[f].vector)
        /\ UNCHANGED form \/ form' = None
    BY <1>2, VaultOf, ExpectsItem, NoneAssumption DEF Live
  <2>2. IsItem(item, FolderData) /\ Stamps(d, vault[d].folders[f].vector, item.vector)
    BY <2>1, RestampedIsItem, RestampedIsStamped
  <2>3. Advances(d, WithFolder(vault[d], f, item, d))
    <3> HIDE DEF item
    <3> QED
      BY <1>2, <2>1, <2>2, FolderAdvances DEF Expects
  <2> QED
    BY <1>2, <2>1, <2>3
<1>3. ASSUME NEW f \in Folders, Expects(d, f, vault[d].folders)
      PROVE  vault[d].folders[f].data \in FolderData
  BY <1>3, VaultOf, ExpectsItem, NoneAssumption
<1>4. CASE UpdateFolder(d)
  <2>1. PICK f \in Folders, name \in Names :
            /\ Expects(d, f, vault[d].folders)
            /\ Saves(d, WithFolder(vault[d], f,
                      Restamped(vault[d].folders[f], d,
                          [parent |-> vault[d].folders[f].data.parent, name |-> name]), d))
    BY <1>4 DEF UpdateFolder
  <2>2. [parent |-> vault[d].folders[f].data.parent, name |-> name] \in FolderData
    BY <1>3, <2>1 DEF FolderData
  <2> QED
    BY <1>2, <2>1, <2>2
<1>5. CASE MoveFolder(d)
  <2>1. PICK f \in Folders, parent \in Folders \union {None} :
            /\ Expects(d, f, vault[d].folders)
            /\ Saves(d, WithFolder(vault[d], f,
                      Restamped(vault[d].folders[f], d,
                          [parent |-> parent, name |-> vault[d].folders[f].data.name]), d))
    BY <1>5 DEF MoveFolder
  <2>2. [parent |-> parent, name |-> vault[d].folders[f].data.name] \in FolderData
    BY <1>3, <2>1 DEF FolderData
  <2> QED
    BY <1>2, <2>1, <2>2
<1>6. CASE RemoveFolder(d)
  <2>1. PICK f \in Folders :
            /\ Expects(d, f, vault[d].folders)
            /\ Saves(d, WithFolder(vault[d], f,
                                   Restamped(vault[d].folders[f], d, None), d))
    BY <1>6 DEF RemoveFolder, Tombstone
  <2> QED
    BY <1>2, <2>1
<1> QED
  BY <1>1, <1>4, <1>5, <1>6

\* A resolution has the items of the remote vault, each as it is or stamped:
\* what the local vault has of them is behind.
LEMMA ResolvedItemsAdvance ==
    ASSUME NEW Kind, NEW Data, NEW d \in Devices,
           NEW local, AreItems(local, Kind, Data),
           NEW other, AreItems(other, Kind, Data), Reviewable(local, other), NEW kept
    PROVE  /\ DOMAIN ResolvedItems(local, other, kept, d) = DOMAIN other
           /\ \A i \in DOMAIN other :
                  \/ ResolvedItems(local, other, kept, d)[i] = other[i]
                  \/ Stamps(d, other[i].vector,
                            ResolvedItems(local, other, kept, d)[i].vector)
<1> DEFINE items == ResolvedItems(local, other, kept, d)
<1>1. \A i \in DOMAIN local :
          /\ i \in DOMAIN other
          /\ \/ local[i] = other[i]
             \/ CompareVersionVectors(local[i].vector, other[i].vector) = "remote_ahead"
  BY DEF Reviewable, ItemRelation
<1>2. DOMAIN items = DOMAIN other
  BY <1>1 DEF ResolvedItems
<1>3. ASSUME NEW i \in DOMAIN other
      PROVE  items[i] = other[i] \/ Stamps(d, other[i].vector, items[i].vector)
  <2>1. IsVersionVector(other[i].vector)
    BY DEF AreItems, IsItem
  <2>2. CASE ItemRelation(local, other, i) = "equal"
    <3>1. items[i] = local[i]
      BY <1>2, <2>2 DEF ResolvedItems
    <3>2. local[i] = other[i]
      BY <2>2 DEF ItemRelation
    <3> QED
      BY <3>1, <3>2
  <2>3. CASE ItemRelation(local, other, i) # "equal"
    <3> DEFINE a == VectorOf(local, i)
               b == VectorOf(other, i)
               merged == MergeVersionVectors(a, b)
    <3>1. items[i].vector = IncrementVersionVector(merged, d)
      BY <1>2, <2>3 DEF ResolvedItems, Stamped
    <3>2. b = other[i].vector
      BY DEF VectorOf
    <3>3. IsVersionVector(a) /\ AtMost(a, b)
      <4>1. CASE i \in DOMAIN local
        <5>1. a = local[i].vector /\ IsVersionVector(a)
          BY <4>1 DEF VectorOf, AreItems, IsItem
        <5>2. CompareVersionVectors(a, b) = "remote_ahead"
          BY <1>1, <2>3, <3>2, <4>1, <5>1 DEF ItemRelation
        <5> QED
          BY <2>1, <3>2, <5>1, <5>2, CompareIsPointwise
      <4>2. CASE i \notin DOMAIN local
        <5>1. a = NoVector
          BY <4>2 DEF VectorOf
        <5>2. IsVersionVector(a) /\ \A x : Component(a, x) = 0
          BY <5>1 DEF NoVector, IsVersionVector, Component
        <5>3. \A x : Component(b, x) \in Nat
          BY <2>1, <3>2, ComponentType
        <5> QED
          BY <5>2, <5>3 DEF AtMost
      <4> QED
        BY <4>1, <4>2
    <3> HIDE DEF a, b
    <3>4. IsVersionVector(merged)
          /\ \A x : Component(merged, x) = Larger(Component(a, x), Component(b, x))
      BY <2>1, <3>2, <3>3, MergeComponents
    <3>5. \A x : Component(a, x) \in Nat /\ Component(b, x) \in Nat
      BY <2>1, <3>2, <3>3, ComponentType
    <3>6. \A x \in Devices : Component(merged, x) = Component(b, x)
      BY <3>3, <3>4, <3>5 DEF AtMost, Larger
    <3> HIDE DEF merged
    <3>7. Stamps(d, merged, items[i].vector)
      BY <3>1, <3>4, IncrementStamps
    <3>8. Stamps(d, b, items[i].vector)
      BY <3>6, <3>7 DEF Stamps
    <3> QED
      BY <3>2, <3>8
  <2> QED
    BY <2>2, <2>3
<1> QED
  BY <1>2, <1>3

LEMMA ResolveAdvances ==
    ASSUME IInv, NEW d \in Devices, Resolve(d)
    PROVE  \E w : Saves(d, w) /\ Advances(d, w) /\ UNCHANGED form
<1>1. PICK kept \in SUBSET (MayKeep(vault[d].entries, remote.entries)
                             \union MayKeep(vault[d].folders, remote.folders)
                             \union MayKeep(vault[d].tags, remote.tags)) :
          Saves(d, Resolved(vault[d], remote, kept, d))
  BY DEF Resolve
<1> DEFINE w == Resolved(vault[d], remote, kept, d)
           merged == MergeVersionVectors(vault[d].vector, remote.vector)
<1>2. /\ IsVault(vault[d]) /\ IsVault(remote) /\ remote \in Everywhere
      /\ \A v \in Everywhere : IsVault(v)
  BY VaultOf DEF IInv, TypeOK, Everywhere
<1>3. AllReviewable(vault[d], remote) /\ IsBehind(d) /\ UNCHANGED form
  BY DEF Resolve
<1>4. IsVault(w)
  BY <1>2, <1>3, ResolvedIsVault
<1>5. /\ w.vector = IncrementVersionVector(merged, d)
      /\ w.entries = ResolvedItems(vault[d].entries, remote.entries, kept, d)
      /\ w.folders = ResolvedItems(vault[d].folders, remote.folders, kept, d)
      /\ w.tags = ResolvedItems(vault[d].tags, remote.tags, kept, d)
  BY DEF Resolved
<1> HIDE DEF w
<1>6. IsVersionVector(vault[d].vector) /\ IsVersionVector(remote.vector)
  BY <1>2 DEF IsVault
<1>7. AtMost(vault[d].vector, remote.vector)
  BY <1>3, <1>6, CompareIsPointwise DEF IsBehind
<1>8. /\ IsVersionVector(merged)
      /\ \A x : Component(merged, x) =
                   Larger(Component(vault[d].vector, x), Component(remote.vector, x))
  BY <1>6, MergeComponents
<1>9. \A x : /\ Component(vault[d].vector, x) \in Nat
             /\ Component(remote.vector, x) \in Nat
  BY <1>6, ComponentType
<1>10. \A x \in Devices : Component(merged, x) = Component(remote.vector, x)
  BY <1>7, <1>8, <1>9 DEF AtMost, Larger
<1> HIDE DEF merged
<1>11. Stamps(d, remote.vector, w.vector)
  <2>1. Stamps(d, merged, w.vector)
    BY <1>5, <1>8, IncrementStamps
  <2> QED
    BY <1>10, <2>1 DEF Stamps
<1>12. /\ DOMAIN w.entries = DOMAIN remote.entries
       /\ \A i \in DOMAIN remote.entries :
              \/ w.entries[i] = remote.entries[i]
              \/ Stamps(d, remote.entries[i].vector, w.entries[i].vector)
  <2>1. /\ AreItems(vault[d].entries, Entries, EntryData)
        /\ AreItems(remote.entries, Entries, EntryData)
        /\ Reviewable(vault[d].entries, remote.entries)
    BY <1>2, <1>3 DEF IsVault, AllReviewable
  <2> DEFINE items == ResolvedItems(vault[d].entries, remote.entries, kept, d)
  <2>2. /\ DOMAIN items = DOMAIN remote.entries
        /\ \A i \in DOMAIN remote.entries :
               \/ items[i] = remote.entries[i]
               \/ Stamps(d, remote.entries[i].vector, items[i].vector)
    BY <2>1, ResolvedItemsAdvance
  <2> QED
    BY <1>5, <2>2
<1>13. /\ DOMAIN w.folders = DOMAIN remote.folders
       /\ \A i \in DOMAIN remote.folders :
              \/ w.folders[i] = remote.folders[i]
              \/ Stamps(d, remote.folders[i].vector, w.folders[i].vector)
  <2>1. /\ AreItems(vault[d].folders, Folders, FolderData)
        /\ AreItems(remote.folders, Folders, FolderData)
        /\ Reviewable(vault[d].folders, remote.folders)
    BY <1>2, <1>3 DEF IsVault, AllReviewable
  <2> DEFINE items == ResolvedItems(vault[d].folders, remote.folders, kept, d)
  <2>2. /\ DOMAIN items = DOMAIN remote.folders
        /\ \A i \in DOMAIN remote.folders :
               \/ items[i] = remote.folders[i]
               \/ Stamps(d, remote.folders[i].vector, items[i].vector)
    BY <2>1, ResolvedItemsAdvance
  <2> QED
    BY <1>5, <2>2
<1>14. /\ DOMAIN w.tags = DOMAIN remote.tags
       /\ \A i \in DOMAIN remote.tags :
              \/ w.tags[i] = remote.tags[i]
              \/ Stamps(d, remote.tags[i].vector, w.tags[i].vector)
  <2>1. /\ AreItems(vault[d].tags, Tags, Names)
        /\ AreItems(remote.tags, Tags, Names)
        /\ Reviewable(vault[d].tags, remote.tags)
    BY <1>2, <1>3 DEF IsVault, AllReviewable
  <2> DEFINE items == ResolvedItems(vault[d].tags, remote.tags, kept, d)
  <2>2. /\ DOMAIN items = DOMAIN remote.tags
        /\ \A i \in DOMAIN remote.tags :
               \/ items[i] = remote.tags[i]
               \/ Stamps(d, remote.tags[i].vector, items[i].vector)
    BY <2>1, ResolvedItemsAdvance
  <2> QED
    BY <1>5, <2>2
<1>15. \A id \in Ids :
           /\ Has(w, id) <=> Has(remote, id)
           /\ Has(remote, id) =>
                  \/ ItemOf(w, id) = ItemOf(remote, id)
                  \/ Stamps(d, ItemOf(remote, id).vector, ItemOf(w, id).vector)
  BY <1>12, <1>13, <1>14 DEF Has, ItemOf
<1>16. Advances(d, w)
  BY <1>4, <1>7, <1>11, <1>15 DEF Advances
<1> QED
  BY <1>1, <1>3, <1>16 DEF w

-----------------------------------------------------------------------------
(* The versions, step by step.                                               *)

LEMMA InitEstablishesVersions == Init => VersionInv
<1> SUFFICES ASSUME Init PROVE VersionInv
  OBVIOUS
<1>1. IInv
  BY InitEstablishesInvariant
<1>2. Everywhere = {remote} /\ form = None /\ \A d \in Devices : vault[d] = remote
  BY DEF Init, Everywhere
<1>3. \A d \in Devices : Component(remote.vector, d) \in Nat
  BY <1>1, <1>2, ComponentType DEF IInv, TypeOK, IsVault
<1>4. \A id \in Ids, d \in Devices : Count(remote, id, d) \in Nat
  BY <1>1, <1>2, ItemOfVault DEF IInv, TypeOK
<1>5. VaultsAreOrdered
  BY <1>2 DEF VaultsAreOrdered, Continues
<1>6. OwnCountsAreHighest
  <2>1. \A n \in Nat : n <= n
    OBVIOUS
  <2> QED
    BY <1>2, <1>3, <1>4, <2>1 DEF OwnCountsAreHighest
<1>7. ItemVersionsAreUnique
  BY <1>2 DEF ItemVersionsAreUnique
<1>8. FormShowsAVersion
  BY <1>2 DEF FormShowsAVersion
<1> QED
  BY <1>5, <1>6, <1>7, <1>8 DEF VersionInv

\* Taking over the remote vault, which is ahead, brings every count up.
LEMMA TransferKeepsVersions ==
    ASSUME IInv, VersionInv, NEW d \in Devices, AcceptRemote(d) \/ Upload(d)
    PROVE  VersionInv'
<1>1. /\ Everywhere' \subseteq Everywhere /\ UNCHANGED form
      /\ \A v \in Everywhere : IsVault(v)
      /\ remote \in Everywhere /\ vault[d] \in Everywhere
      /\ \A x \in Devices : vault[x] \in Everywhere
  BY DEF AcceptRemote, Upload, Everywhere, IInv, TypeOK
<1>2. ASSUME NEW x \in Devices
      PROVE  vault'[x] = vault[x]
             \/ (x = d /\ vault'[x] = remote /\ AtMost(vault[x].vector, remote.vector))
  <2>1. CASE AcceptRemote(d)
    <3>1. IsVersionVector(vault[d].vector) /\ IsVersionVector(remote.vector)
      BY <1>1 DEF IsVault
    <3>2. AtMost(vault[d].vector, remote.vector)
      BY <2>1, <3>1, CompareIsPointwise DEF AcceptRemote, IsBehind
    <3>3. vault'[x] = IF x = d THEN remote ELSE vault[x]
      BY <2>1 DEF AcceptRemote, IInv, TypeOK
    <3> QED
      BY <3>2, <3>3
  <2>2. CASE Upload(d)
    BY <2>2 DEF Upload
  <2> QED
    BY <2>1, <2>2
<1>3. ASSUME NEW x \in Devices
      PROVE  /\ IsVault(vault[x]) /\ IsVault(vault'[x])
             /\ Component(vault[x].vector, x) <= Component(vault'[x].vector, x)
             /\ Continues(vault[x], vault'[x])
  <2>1. /\ IsVault(vault[x]) /\ IsVault(remote) /\ remote \in Everywhere
        /\ vault[x] \in Everywhere
    BY <1>1
  <2>2. /\ Component(vault[x].vector, x) \in Nat
        /\ Component(remote.vector, x) \in Nat
    BY <2>1, ComponentType DEF IsVault
  <2>3. CASE vault'[x] = vault[x]
    BY <2>1, <2>2, <2>3 DEF Continues
  <2>4. CASE vault'[x] = remote /\ AtMost(vault[x].vector, remote.vector)
    <3>1. Continues(vault[x], remote)
      BY <2>1, <2>4 DEF VersionInv, VaultsAreOrdered
    <3> QED
      BY <2>1, <2>2, <2>4, <3>1 DEF AtMost
  <2> QED
    BY <1>2, <2>3, <2>4
<1>4. VaultsAreOrdered' /\ ItemVersionsAreUnique'
  BY <1>1 DEF VersionInv, VaultsAreOrdered, ItemVersionsAreUnique
<1>5. ASSUME NEW v \in Everywhere, NEW x \in Devices
      PROVE  Component(v.vector, x) <= Component(vault'[x].vector, x)
  <2>1. /\ Component(v.vector, x) <= Component(vault[x].vector, x)
        /\ Component(vault[x].vector, x) <= Component(vault'[x].vector, x)
    BY <1>3 DEF VersionInv, OwnCountsAreHighest
  <2>2. /\ Component(v.vector, x) \in Nat /\ Component(vault[x].vector, x) \in Nat
        /\ Component(vault'[x].vector, x) \in Nat
    BY <1>1, <1>3, ComponentType DEF IsVault
  <2> QED
    BY <2>1, <2>2
<1>6. ASSUME NEW id \in Ids, NEW x \in Devices, NEW n \in Nat,
             n <= Count(vault[x], id, x)
      PROVE  n <= Count(vault'[x], id, x)
  <2>1. Count(vault[x], id, x) <= Count(vault'[x], id, x)
    BY <1>3, ContinuesCounts
  <2>2. Count(vault[x], id, x) \in Nat /\ Count(vault'[x], id, x) \in Nat
    BY <1>3, ItemOfVault
  <2> QED
    BY <1>6, <2>1, <2>2
<1>7. ASSUME NEW v \in Everywhere, NEW x \in Devices, NEW id \in Ids
      PROVE  Count(v, id, x) <= Count(vault'[x], id, x)
  <2>1. Count(v, id, x) \in Nat /\ Count(v, id, x) <= Count(vault[x], id, x)
    BY <1>1, ItemOfVault DEF VersionInv, OwnCountsAreHighest
  <2> QED
    BY <1>6, <2>1
<1>8. OwnCountsAreHighest'
  BY <1>1, <1>5, <1>7 DEF OwnCountsAreHighest
<1>9. FormShowsAVersion'
  <2>1. CASE form = None
    BY <1>1, <2>1 DEF FormShowsAVersion
  <2>2. CASE form # None
    <3>1. /\ form.device \in Devices /\ form.id \in Ids
          /\ IsVersionVector(form.item.vector)
      BY <2>2 DEF IInv, TypeOK, Ids
    <3>2. /\ Has(vault[form.device], form.id)
          /\ \A x \in Devices :
                 Component(form.item.vector, x) <= Count(vault[x], form.id, x)
          /\ \A v \in Everywhere :
                 Has(v, form.id) /\ SameVersion(ItemOf(v, form.id), form.item)
                 => ItemOf(v, form.id) = form.item
      BY <2>2 DEF VersionInv, FormShowsAVersion
    <3>3. Has(vault'[form.device], form.id)
      BY <1>3, <3>1, <3>2 DEF Continues
    <3>4. ASSUME NEW x \in Devices
          PROVE  Component(form.item.vector, x) <= Count(vault'[x], form.id, x)
      <4>1. Component(form.item.vector, x) \in Nat
        BY <3>1, ComponentType
      <4> QED
        BY <1>6, <3>1, <3>2, <4>1
    <3> QED
      BY <1>1, <3>2, <3>3, <3>4 DEF FormShowsAVersion
  <2> QED
    BY <2>1, <2>2
<1> QED
  BY <1>4, <1>8, <1>9 DEF VersionInv

\* A form shows an item of the vault of its device.
LEMMA OpenFormKeepsVersions ==
    ASSUME IInv, VersionInv, NEW d \in Devices, OpenForm(d)
    PROVE  VersionInv'
<1>1. PICK id \in Ids :
          /\ Has(vault[d], id)
          /\ form' = [device |-> d, id |-> id, item |-> ItemOf(vault[d], id)]
  <2>1. /\ Live(vault[d].entries) \subseteq Entries
        /\ Live(vault[d].folders) \subseteq Folders
        /\ Live(vault[d].tags) \subseteq Tags
    BY VaultOf DEF Live, AreItems
  <2>2. CASE \E e \in Live(vault[d].entries) :
                 form' = [device |-> d, id |-> e, item |-> vault[d].entries[e]]
    BY <2>1, <2>2 DEF Ids, Has, ItemOf, Live
  <2>3. CASE \E f \in Live(vault[d].folders) :
                 form' = [device |-> d, id |-> f, item |-> vault[d].folders[f]]
    BY <2>1, <2>3, IdentitiesAssumption DEF Ids, Has, ItemOf, Live
  <2>4. CASE \E t \in Live(vault[d].tags) :
                 form' = [device |-> d, id |-> t, item |-> vault[d].tags[t]]
    BY <2>1, <2>4, IdentitiesAssumption DEF Ids, Has, ItemOf, Live
  <2> QED
    BY <2>2, <2>3, <2>4 DEF OpenForm
<1>2. /\ UNCHANGED <<vault, remote>> /\ Everywhere' = Everywhere
      /\ vault[d] \in Everywhere
  BY DEF OpenForm, Everywhere
<1>3. VaultsAreOrdered' /\ OwnCountsAreHighest' /\ ItemVersionsAreUnique'
  BY <1>2 DEF VersionInv, VaultsAreOrdered, OwnCountsAreHighest, ItemVersionsAreUnique
<1>4. \A x \in Devices : Count(vault[d], id, x) <= Count(vault[x], id, x)
  BY <1>2 DEF VersionInv, OwnCountsAreHighest
<1>5. \A x \in Devices : Component(ItemOf(vault[d], id).vector, x)
                            <= Count(vault[x], id, x)
  BY <1>1, <1>4 DEF Count
<1>6. \A v \in Everywhere :
          Has(v, id) /\ SameVersion(ItemOf(v, id), ItemOf(vault[d], id))
          => ItemOf(v, id) = ItemOf(vault[d], id)
  BY <1>1, <1>2 DEF VersionInv, ItemVersionsAreUnique
<1>7. FormShowsAVersion'
  BY <1>1, <1>2, <1>5, <1>6 DEF FormShowsAVersion
<1> QED
  BY <1>3, <1>7 DEF VersionInv

LEMMA StepKeepsVersions == IInv /\ VersionInv /\ [Next]_vars => VersionInv'
<1> SUFFICES ASSUME IInv, VersionInv, [Next]_vars PROVE VersionInv'
  OBVIOUS
<1>1. CASE UNCHANGED vars
  BY <1>1 DEF vars, VersionInv, VaultsAreOrdered, OwnCountsAreHighest,
     ItemVersionsAreUnique, FormShowsAVersion, Everywhere
<1>2. ASSUME NEW d \in Devices,
             AddEntry(d) \/ UpdateEntry(d) \/ RemoveEntry(d)
      PROVE  VersionInv'
  BY <1>2, EntryChangesAdvance, AdvanceKeepsVersions
<1>3. ASSUME NEW d \in Devices,
             AddFolder(d) \/ UpdateFolder(d) \/ MoveFolder(d) \/ RemoveFolder(d)
      PROVE  VersionInv'
  BY <1>3, FolderChangesAdvance, AdvanceKeepsVersions
<1>4. ASSUME NEW d \in Devices, AddTag(d) \/ UpdateTag(d) \/ RemoveTag(d)
      PROVE  VersionInv'
  BY <1>4, TagChangesAdvance, AdvanceKeepsVersions
<1>5. ASSUME NEW d \in Devices, Resolve(d)
      PROVE  VersionInv'
  BY <1>5, ResolveAdvances, AdvanceKeepsVersions
<1>6. ASSUME NEW d \in Devices, AcceptRemote(d) \/ Upload(d) \/ OpenForm(d)
      PROVE  VersionInv'
  BY <1>6, TransferKeepsVersions, OpenFormKeepsVersions
<1> QED
  BY <1>1, <1>2, <1>3, <1>4, <1>5, <1>6 DEF Next

-----------------------------------------------------------------------------
(* What the order of the versions gives a device that is behind.             *)

\* A vault that another continues can be reviewed against it.
LEMMA ContinuesIsReviewable ==
    ASSUME NEW v, IsVault(v), NEW w, IsVault(w), Continues(v, w)
    PROVE  AllReviewable(v, w)
<1>1. ASSUME NEW items, NEW later, NEW i \in DOMAIN items, i \in DOMAIN later,
             IsVersionVector(items[i].vector), IsVersionVector(later[i].vector),
             items[i] = later[i] \/ OlderVersion(items[i], later[i])
      PROVE  ItemRelation(items, later, i) # "broken"
  <2>1. CASE items[i] = later[i]
    BY <1>1, <2>1 DEF ItemRelation
  <2>2. CASE items[i] # later[i]
    <3>1. CompareVersionVectors(items[i].vector, later[i].vector) = "remote_ahead"
      BY <1>1, <2>2, CompareIsPointwise DEF OlderVersion
    <3> QED
      BY <1>1, <2>2, <3>1 DEF ItemRelation
  <2> QED
    BY <2>1, <2>2
<1>2. /\ AreItems(v.entries, Entries, EntryData) /\ AreItems(w.entries, Entries, EntryData)
      /\ AreItems(v.folders, Folders, FolderData) /\ AreItems(w.folders, Folders, FolderData)
      /\ AreItems(v.tags, Tags, Names) /\ AreItems(w.tags, Tags, Names)
  BY DEF IsVault
<1>3. ASSUME NEW i \in DOMAIN v.entries
      PROVE  ItemRelation(v.entries, w.entries, i) # "broken"
  <2>1. i \in Entries /\ i \in Ids
    BY <1>2 DEF AreItems, Ids
  <2>2. /\ Has(v, i) /\ Has(w, i) <=> i \in DOMAIN w.entries
        /\ ItemOf(v, i) = v.entries[i] /\ ItemOf(w, i) = w.entries[i]
    BY <2>1 DEF Has, ItemOf
  <2>3. /\ i \in DOMAIN w.entries
        /\ v.entries[i] = w.entries[i] \/ OlderVersion(v.entries[i], w.entries[i])
    BY <2>1, <2>2 DEF Continues, Has
  <2>4. IsVersionVector(v.entries[i].vector) /\ IsVersionVector(w.entries[i].vector)
    BY <1>2, <2>3 DEF AreItems, IsItem
  <2> QED
    BY <1>1, <2>3, <2>4
<1>4. ASSUME NEW i \in DOMAIN v.folders
      PROVE  ItemRelation(v.folders, w.folders, i) # "broken"
  <2>1. i \in Folders /\ i \in Ids
    BY <1>2 DEF AreItems, Ids
  <2>2. /\ Has(v, i) /\ Has(w, i) <=> i \in DOMAIN w.folders
        /\ ItemOf(v, i) = v.folders[i] /\ ItemOf(w, i) = w.folders[i]
    BY <2>1, IdentitiesAssumption DEF Has, ItemOf
  <2>3. /\ i \in DOMAIN w.folders
        /\ v.folders[i] = w.folders[i] \/ OlderVersion(v.folders[i], w.folders[i])
    BY <2>1, <2>2, IdentitiesAssumption DEF Continues, Has
  <2>4. IsVersionVector(v.folders[i].vector) /\ IsVersionVector(w.folders[i].vector)
    BY <1>2, <2>3 DEF AreItems, IsItem
  <2> QED
    BY <1>1, <2>3, <2>4
<1>5. ASSUME NEW i \in DOMAIN v.tags
      PROVE  ItemRelation(v.tags, w.tags, i) # "broken"
  <2>1. i \in Tags /\ i \in Ids
    BY <1>2 DEF AreItems, Ids
  <2>2. /\ Has(v, i) /\ Has(w, i) <=> i \in DOMAIN w.tags
        /\ ItemOf(v, i) = v.tags[i] /\ ItemOf(w, i) = w.tags[i]
    BY <2>1, IdentitiesAssumption DEF Has, ItemOf
  <2>3. /\ i \in DOMAIN w.tags
        /\ v.tags[i] = w.tags[i] \/ OlderVersion(v.tags[i], w.tags[i])
    BY <2>1, <2>2, IdentitiesAssumption DEF Continues, Has
  <2>4. IsVersionVector(v.tags[i].vector) /\ IsVersionVector(w.tags[i].vector)
    BY <1>2, <2>3 DEF AreItems, IsItem
  <2> QED
    BY <1>1, <2>3, <2>4
<1> QED
  BY <1>3, <1>4, <1>5 DEF AllReviewable, Reviewable

\* Items with the same data are organized alike.
SameData(items, others) ==
    /\ DOMAIN items = DOMAIN others
    /\ \A i \in DOMAIN items : items[i].data = others[i].data

LEMMA SameDataSameOrganization ==
    ASSUME NEW v, NEW w, ValidOrganization(v),
           SameData(v.entries, w.entries), SameData(v.folders, w.folders),
           SameData(v.tags, w.tags)
    PROVE  ValidOrganization(w)
<1>1. /\ Live(w.entries) = Live(v.entries) /\ Live(w.folders) = Live(v.folders)
      /\ Live(w.tags) = Live(v.tags)
  BY DEF SameData, Live
<1>2. /\ \A e \in Live(v.entries) : w.entries[e].data = v.entries[e].data
      /\ \A f \in Live(v.folders) : w.folders[f].data = v.folders[f].data
      /\ \A t \in Live(v.tags) : w.tags[t].data = v.tags[t].data
  BY DEF SameData, Live
<1>3. TagNamesDiffer(w) /\ FolderNamesDiffer(w)
  BY <1>1, <1>2 DEF ValidOrganization, TagNamesDiffer, FolderNamesDiffer
<1>4. \A f \in Live(v.folders) : Parent(w, f) = Parent(v, f)
  BY <1>2 DEF Parent
<1>5. ParentsExist(w)
  BY <1>1, <1>4 DEF ValidOrganization, ParentsExist
<1>6. Acyclic(w)
  BY <1>1, <1>4 DEF ValidOrganization, Acyclic
<1>7. EntriesFit(w)
  BY <1>1, <1>2 DEF ValidOrganization, EntriesFit, EntryFits
<1> QED
  BY <1>3, <1>5, <1>6, <1>7 DEF ValidOrganization

\* Taking the remote side of everything gives what the remote vault holds.
LEMMA ResolvedToOther ==
    ASSUME NEW local, NEW other, NEW d, Reviewable(local, other)
    PROVE  SameData(other, ResolvedItems(local, other, {}, d))
<1> DEFINE items == ResolvedItems(local, other, {}, d)
<1>1. \A i \in DOMAIN local : i \in DOMAIN other
  BY DEF Reviewable, ItemRelation
<1>2. DOMAIN items = DOMAIN other
  BY <1>1 DEF ResolvedItems
<1>3. ASSUME NEW i \in DOMAIN other PROVE items[i].data = other[i].data
  <2>1. CASE ItemRelation(local, other, i) = "equal"
    <3>1. items[i] = local[i]
      BY <1>2, <2>1 DEF ResolvedItems
    <3>2. local[i] = other[i]
      BY <2>1 DEF ItemRelation
    <3> QED
      BY <3>1, <3>2
  <2>2. CASE ItemRelation(local, other, i) # "equal"
    BY <1>2, <2>2 DEF ResolvedItems
  <2> QED
    BY <2>1, <2>2
<1> QED
  BY <1>2, <1>3 DEF SameData

LEMMA VersionsMakeReviewable ==
    ASSUME IInv, VersionInv
    PROVE  RemoteAheadCanBeReviewed
<1> SUFFICES ASSUME NEW d \in Devices
             PROVE  /\ IsBehind(d) =>
                          /\ AllReviewable(vault[d], remote)
                          /\ ValidOrganization(Resolved(vault[d], remote, {}, d))
                    /\ CompareVersionVectors(vault[d].vector, remote.vector) = "equal"
                           => vault[d] = remote
  BY DEF RemoteAheadCanBeReviewed
<1>1. /\ vault[d] \in Everywhere /\ remote \in Everywhere
      /\ IsVault(vault[d]) /\ IsVault(remote) /\ ValidOrganization(remote)
  BY DEF Everywhere, IInv, TypeOK, VaultsStayOrganized
<1>2. IsVersionVector(vault[d].vector) /\ IsVersionVector(remote.vector)
  BY <1>1 DEF IsVault
<1>3. ASSUME IsBehind(d)
      PROVE  /\ AllReviewable(vault[d], remote)
             /\ ValidOrganization(Resolved(vault[d], remote, {}, d))
  <2>1. AtMost(vault[d].vector, remote.vector)
    BY <1>2, <1>3, CompareIsPointwise DEF IsBehind
  <2>2. Continues(vault[d], remote)
    BY <1>1, <2>1 DEF VersionInv, VaultsAreOrdered
  <2>3. AllReviewable(vault[d], remote)
    BY <1>1, <2>2, ContinuesIsReviewable
  <2> DEFINE w == Resolved(vault[d], remote, {}, d)
  <2>4. /\ SameData(remote.entries, w.entries)
        /\ SameData(remote.folders, w.folders)
        /\ SameData(remote.tags, w.tags)
    BY <2>3, ResolvedToOther DEF Resolved, AllReviewable
  <2> HIDE DEF w
  <2>5. ValidOrganization(w)
    BY <1>1, <2>4, SameDataSameOrganization
  <2> QED
    BY <2>3, <2>5 DEF w
<1>4. ASSUME CompareVersionVectors(vault[d].vector, remote.vector) = "equal"
      PROVE  vault[d] = remote
  <2>1. SameVersion(vault[d], remote)
    BY <1>2, <1>4, CompareIsPointwise DEF SameVersion
  <2> QED
    BY <1>1, <2>1 DEF VersionInv, VaultsAreOrdered
<1> QED
  BY <1>3, <1>4

\* A device that is behind can always be brought up to date: every item of its
\* vault is in the remote one, the same or ahead, and the remote side of
\* everything is organized, so neither the review, which refuses an item that is
\* newer or unrelated, nor the resolution, which refuses what does not fit
\* together, ever strands it.  And a remote vault of the same vector is the same
\* vault.  For any number of devices, items, lost uploads and resolutions.
THEOREM BehindIsAlwaysReviewable == Spec => []RemoteAheadCanBeReviewed
<1>1. IInv /\ VersionInv => RemoteAheadCanBeReviewed
  BY VersionsMakeReviewable
<1> QED
  BY InitEstablishesInvariant, StepKeepsInvariant, InitEstablishesVersions,
     StepKeepsVersions, <1>1, PTL DEF Spec

-----------------------------------------------------------------------------
(* What it gives a page that was left open.                                  *)

\* A submitted form expects the version that it shows.
LEMMA SubmitsWhatIsThere ==
    ASSUME IInv, VersionInv, NEW d \in Devices, NEW id \in Ids, Has(vault[d], id),
           form # None, form.device = d, form.id = id,
           CompareVersionVectors(ItemOf(vault[d], id).vector, form.item.vector) = "equal"
    PROVE  ItemOf(vault[d], id) = form.item
<1>1. vault[d] \in Everywhere /\ IsVault(vault[d])
  BY DEF Everywhere, IInv, TypeOK
<1>2. IsVersionVector(ItemOf(vault[d], id).vector) /\ IsVersionVector(form.item.vector)
  BY <1>1, ItemOfVault DEF IInv, TypeOK
<1>3. SameVersion(ItemOf(vault[d], id), form.item)
  BY <1>2, CompareIsPointwise DEF SameVersion
<1> QED
  BY <1>1, <1>3 DEF VersionInv, FormShowsAVersion

LEMMA ExpectedIsShown ==
    ASSUME IInv, VersionInv, NEW d \in Devices, NEW i, NEW items,
           \/ i \in Entries /\ items = vault[d].entries
           \/ i \in Folders /\ items = vault[d].folders
           \/ i \in Tags /\ items = vault[d].tags,
           Expects(d, i, items), form # None, form' = None
    PROVE  ItemOf(vault[form.device], form.id) = form.item
<1>1. /\ i \in Live(items) /\ form.device = d /\ form.id = i
      /\ CompareVersionVectors(items[i].vector, form.item.vector) = "equal"
  BY DEF Expects
<1>2. i \in Ids /\ Has(vault[d], i) /\ ItemOf(vault[d], i) = items[i]
  BY <1>1, IdentitiesAssumption DEF Ids, Has, ItemOf, Live
<1> QED
  BY <1>1, <1>2, SubmitsWhatIsThere

LEMMA StepSubmitsWhatWasShown ==
    ASSUME IInv, VersionInv, Next, form # None, form' = None
    PROVE  ItemOf(vault[form.device], form.id) = form.item
<1>1. PICK d \in Devices :
          \/ AddEntry(d) \/ UpdateEntry(d) \/ RemoveEntry(d)
          \/ AddFolder(d) \/ UpdateFolder(d) \/ MoveFolder(d) \/ RemoveFolder(d)
          \/ AddTag(d) \/ UpdateTag(d) \/ RemoveTag(d)
          \/ OpenForm(d)
          \/ AcceptRemote(d) \/ Resolve(d) \/ Upload(d)
  BY DEF Next
<1>2. CASE UpdateEntry(d) \/ RemoveEntry(d)
  <2>1. PICK e \in Entries : Expects(d, e, vault[d].entries)
    BY <1>2 DEF UpdateEntry, RemoveEntry
  <2> QED
    BY <2>1, ExpectedIsShown
<1>3. CASE UpdateFolder(d) \/ MoveFolder(d) \/ RemoveFolder(d)
  <2>1. PICK f \in Folders : Expects(d, f, vault[d].folders)
    BY <1>3 DEF UpdateFolder, MoveFolder, RemoveFolder
  <2> QED
    BY <2>1, ExpectedIsShown
<1>4. CASE UpdateTag(d) \/ RemoveTag(d)
  <2>1. PICK t \in Tags : Expects(d, t, vault[d].tags)
    BY <1>4 DEF UpdateTag, RemoveTag
  <2> QED
    BY <2>1, ExpectedIsShown
<1>5. CASE AddEntry(d) \/ AddFolder(d) \/ AddTag(d)
  BY <1>5 DEF AddEntry, AddFolder, AddTag, Adds
<1>6. CASE OpenForm(d)
  BY <1>6 DEF OpenForm
<1>7. CASE AcceptRemote(d) \/ Resolve(d) \/ Upload(d)
  BY <1>7 DEF AcceptRemote, Resolve, Upload
<1> QED
  BY <1>1, <1>2, <1>3, <1>4, <1>5, <1>6, <1>7

\* A page that kept a form open, over changes of other pages and resolutions of
\* what other devices did, only ever submits it over the very item it shows: a
\* version vector that is equal stands for an item that is equal, although
\* several devices and lost uploads stamp them.
THEOREM FormsSubmitOverWhatTheyShow == Spec => SubmitsOverWhatWasShown
<1>1. IInv /\ VersionInv /\ [Next]_vars =>
          [form # None /\ form' = None
           => ItemOf(vault[form.device], form.id) = form.item]_vars
  BY StepSubmitsWhatWasShown
<1> QED
  BY InitEstablishesInvariant, StepKeepsInvariant, InitEstablishesVersions,
     StepKeepsVersions, <1>1, PTL DEF Spec, SubmitsOverWhatWasShown
=============================================================================
