---------------------------- MODULE VaultContents ----------------------------
(* What a vault holds: entries in folders, with tags, and a tombstone for    *)
(* every item that was removed.  The devices of one synchronized vault       *)
(* change it, review what others changed and resolve item by item.  How an   *)
(* upload goes wrong is SnapshotSync's subject; here it lands, or the device *)
(* is left ahead of the remote vault until it tries again.                   *)
EXTENDS VersionVectors, FiniteSets

CONSTANTS Entries, Folders, Tags,  \* identities, given out once
          Names,                   \* normalized names
          None,                    \* no item, no parent, uncategorized
          Templates,               \* what a new vault may start with
          MaxChanges,              \* bound: changes and resolutions
          MaxLost                  \* bound: uploads that do not arrive

VARIABLES
    vault,    \* vault[d]: what device d stores and its session shows
    remote,   \* the vault in the remote object
    form,     \* an edit form some page holds open, with the item it shows
    changes,
    lost

vars == <<vault, remote, form, changes, lost>>

EntryData == [folder : Folders \union {None}, tags : SUBSET Tags]
FolderData == [parent : Folders \union {None}, name : Names]

ASSUME NoneAssumption ==
    /\ None \notin Folders /\ None \notin Names
    /\ None \notin EntryData /\ None \notin FolderData

ASSUME IdentitiesAssumption ==
    /\ Entries \intersect Folders = {}
    /\ Entries \intersect Tags = {}
    /\ Folders \intersect Tags = {}

ASSUME TemplatesAssumption ==
    \A t \in Templates :
        /\ DOMAIN t.folders \subseteq Folders
        /\ \A f \in DOMAIN t.folders : t.folders[f] \in FolderData
        /\ DOMAIN t.tags \subseteq Tags
        /\ \A i \in DOMAIN t.tags : t.tags[i] \in Names

ASSUME BoundsAssumption == MaxChanges \in Nat /\ MaxLost \in Nat

\* An item is there, with its data, or left a tombstone.
IsItem(item, Data) ==
    /\ IsVersionVector(item.vector)
    /\ item.data \in Data \union {None}
    /\ item = [vector |-> item.vector, data |-> item.data]

AreItems(items, Ids, Data) ==
    /\ DOMAIN items \subseteq Ids
    /\ items = [i \in DOMAIN items |-> items[i]]
    /\ \A i \in DOMAIN items : IsItem(items[i], Data)

IsVault(v) ==
    /\ IsVersionVector(v.vector)
    /\ v = [vector |-> v.vector, entries |-> v.entries,
            folders |-> v.folders, tags |-> v.tags]
    /\ AreItems(v.entries, Entries, EntryData)
    /\ AreItems(v.folders, Folders, FolderData)
    /\ AreItems(v.tags, Tags, Names)

Everywhere == {vault[d] : d \in Devices} \union {remote}

TypeOK ==
    /\ DOMAIN vault = Devices
    /\ \A v \in Everywhere : IsVault(v)
    /\ form # None => /\ form.device \in Devices
                      /\ form.id \in Entries \union Folders \union Tags
                      /\ IsVersionVector(form.item.vector)
    /\ changes \in 0..MaxChanges
    /\ lost \in 0..MaxLost

Live(items) == {i \in DOMAIN items : items[i].data # None}

Parent(v, f) == v.folders[f].data.parent

-----------------------------------------------------------------------------
(* The organization of a vault                                              *)

EntryFits(v, data) ==
    /\ data.folder \in Live(v.folders) \union {None}
    /\ data.tags \subseteq Live(v.tags)

\* Names are unique among tags, and among the folders of one parent.
TagNamesDiffer(v) ==
    \A s, t \in Live(v.tags) : v.tags[s].data = v.tags[t].data => s = t

FolderNamesDiffer(v) ==
    \A f, g \in Live(v.folders) : v.folders[f].data = v.folders[g].data => f = g

ParentsExist(v) ==
    \A f \in Live(v.folders) : Parent(v, f) \in Live(v.folders) \union {None}

\* Following the parents of a folder ends: no set of folders keeps the walk
\* inside.
Acyclic(v) ==
    \A S \in SUBSET Live(v.folders) : S # {} => \E f \in S : Parent(v, f) \notin S

EntriesFit(v) == \A e \in Live(v.entries) : EntryFits(v, v.entries[e].data)

ValidOrganization(v) ==
    /\ TagNamesDiffer(v)
    /\ FolderNamesDiffer(v)
    /\ ParentsExist(v)
    /\ Acyclic(v)
    /\ EntriesFit(v)

\* The walk from a new parent towards the root does not meet the folder.
MoveKeepsTree(v, f, parent) ==
    \E walk \in SUBSET Live(v.folders) :
        /\ f \notin walk
        /\ parent \in walk \union {None}
        /\ \A g \in walk : Parent(v, g) \in walk \union {None}

-----------------------------------------------------------------------------
(* Changes to a vault                                                       *)

\* A new item counts from its device's component of the vault's vector.
NewItem(v, d, data) ==
    [vector |-> [x \in {d} |-> Component(v.vector, d) + 1], data |-> data]

Restamped(item, d, data) ==
    [vector |-> IncrementVersionVector(item.vector, d), data |-> data]

TombstoneOfItsOwn(v, item, d) == NewItem(v, d, None)      \* seeded fault

\* A tombstone continues the vector of the item it stands for.
Tombstone(v, item, d) == Restamped(item, d, None)

With(items, i, item) ==
    [x \in DOMAIN items \union {i} |-> IF x = i THEN item ELSE items[x]]

WithEntry(v, e, item, d) ==
    [vector |-> IncrementVersionVector(v.vector, d),
     entries |-> With(v.entries, e, item),
     folders |-> v.folders, tags |-> v.tags]

WithFolder(v, f, item, d) ==
    [vector |-> IncrementVersionVector(v.vector, d), entries |-> v.entries,
     folders |-> With(v.folders, f, item), tags |-> v.tags]

WithTag(v, t, item, d) ==
    [vector |-> IncrementVersionVector(v.vector, d), entries |-> v.entries,
     folders |-> v.folders, tags |-> With(v.tags, t, item)]

\* initializeVault: folders and tags of a template, refused when they do not
\* fit together, and no entries.
Init ==
    /\ \E d \in Devices, template \in Templates :
           LET first == [x \in {d} |-> 1]
               Made(items) == [i \in DOMAIN items |->
                                  [vector |-> first, data |-> items[i]]]
           IN  remote = [vector |-> first, entries |-> Made(<<>>),
                         folders |-> Made(template.folders),
                         tags |-> Made(template.tags)]
    /\ ValidOrganization(remote)
    /\ vault = [d \in Devices |-> remote]
    /\ form = None
    /\ changes = 0
    /\ lost = 0

\* What is persisted is uploaded on the condition that the remote object is the
\* one that was read.  A refused upload is rolled back and changes nothing.
Saves(d, v) ==
    /\ changes < MaxChanges
    /\ changes' = changes + 1
    /\ vault' = [vault EXCEPT ![d] = v]
    /\ \/ remote' = v /\ UNCHANGED lost
       \/ lost < MaxLost /\ lost' = lost + 1 /\ UNCHANGED remote

\* A change starts from the remote vault, and from the version of the item
\* that the page shows, be it from before.
ExpectsNothing(d, id, items) ==                            \* seeded fault
    /\ vault[d] = remote
    /\ id \in Live(items)
    /\ \/ UNCHANGED form
       \/ /\ form # None
          /\ form.device = d
          /\ form.id = id
          /\ form' = None

Expects(d, id, items) ==
    /\ vault[d] = remote
    /\ id \in Live(items)
    /\ \/ UNCHANGED form
       \/ /\ form # None
          /\ form.device = d
          /\ form.id = id
          /\ CompareVersionVectors(items[id].vector, form.item.vector) = "equal"
          /\ form' = None

Adds(d) == vault[d] = remote /\ UNCHANGED form

AddEntry(d) == \E e \in Entries, data \in EntryData :
    /\ Adds(d)
    /\ \A v \in Everywhere : e \notin DOMAIN v.entries
    /\ EntryFits(vault[d], data)
    /\ Saves(d, WithEntry(vault[d], e, NewItem(vault[d], d, data), d))

UpdateEntry(d) == \E e \in Entries, data \in EntryData :
    LET entry == vault[d].entries[e]
    IN  /\ Expects(d, e, vault[d].entries)
        /\ EntryFits(vault[d], data)
        /\ Saves(d, WithEntry(vault[d], e, Restamped(entry, d, data), d))

RemoveEntry(d) == \E e \in Entries :
    LET entry == vault[d].entries[e]
    IN  /\ Expects(d, e, vault[d].entries)
        /\ Saves(d, WithEntry(vault[d], e, Tombstone(vault[d], entry, d), d))

AddFolder(d) == \E f \in Folders, data \in FolderData :
    /\ Adds(d)
    /\ \A v \in Everywhere : f \notin DOMAIN v.folders
    /\ data.parent \in Live(vault[d].folders) \union {None}
    /\ \A g \in Live(vault[d].folders) : vault[d].folders[g].data # data
    /\ Saves(d, WithFolder(vault[d], f, NewItem(vault[d], d, data), d))

\* Renaming; icon and description are left out.
UpdateFolder(d) == \E f \in Folders, name \in Names :
    LET folder == vault[d].folders[f]
    IN  /\ Expects(d, f, vault[d].folders)
        /\ \A g \in Live(vault[d].folders) \ {f} :
               vault[d].folders[g].data # [parent |-> folder.data.parent, name |-> name]
        /\ Saves(d, WithFolder(vault[d], f,
                  Restamped(folder, d, [parent |-> folder.data.parent, name |-> name]), d))

MoveFolder(d) == \E f \in Folders, parent \in Folders \union {None} :
    LET folder == vault[d].folders[f]
    IN  /\ Expects(d, f, vault[d].folders)
        /\ parent \in Live(vault[d].folders) \union {None}
        /\ MoveKeepsTree(vault[d], f, parent)
        /\ \A g \in Live(vault[d].folders) \ {f} :
               vault[d].folders[g].data # [parent |-> parent, name |-> folder.data.name]
        /\ Saves(d, WithFolder(vault[d], f,
                  Restamped(folder, d, [parent |-> parent, name |-> folder.data.name]), d))

\* Only an empty folder, and only a tag without entries, can be removed.
RemoveFolder(d) == \E f \in Folders :
    LET folder == vault[d].folders[f]
    IN  /\ Expects(d, f, vault[d].folders)
        /\ \A e \in Live(vault[d].entries) : vault[d].entries[e].data.folder # f
        /\ \A g \in Live(vault[d].folders) : Parent(vault[d], g) # f
        /\ Saves(d, WithFolder(vault[d], f, Tombstone(vault[d], folder, d), d))

AddTag(d) == \E t \in Tags, name \in Names :
    /\ Adds(d)
    /\ \A v \in Everywhere : t \notin DOMAIN v.tags
    /\ \A s \in Live(vault[d].tags) : vault[d].tags[s].data # name
    /\ Saves(d, WithTag(vault[d], t, NewItem(vault[d], d, name), d))

UpdateTag(d) == \E t \in Tags, name \in Names :
    LET tag == vault[d].tags[t]
    IN  /\ Expects(d, t, vault[d].tags)
        /\ \A s \in Live(vault[d].tags) \ {t} : vault[d].tags[s].data # name
        /\ Saves(d, WithTag(vault[d], t, Restamped(tag, d, name), d))

RemoveTag(d) == \E t \in Tags :
    LET tag == vault[d].tags[t]
    IN  /\ Expects(d, t, vault[d].tags)
        /\ \A e \in Live(vault[d].entries) : t \notin vault[d].entries[e].data.tags
        /\ Saves(d, WithTag(vault[d], t, Tombstone(vault[d], tag, d), d))

\* The page keeps what it shows until it is submitted.  (Bound: nothing could
\* be submitted after the last change.)
OpenForm(d) ==
    /\ changes < MaxChanges
    /\ form = None
    /\ \/ \E e \in Live(vault[d].entries) :
              form' = [device |-> d, id |-> e, item |-> vault[d].entries[e]]
       \/ \E f \in Live(vault[d].folders) :
              form' = [device |-> d, id |-> f, item |-> vault[d].folders[f]]
       \/ \E t \in Live(vault[d].tags) :
              form' = [device |-> d, id |-> t, item |-> vault[d].tags[t]]
    /\ UNCHANGED <<vault, remote, changes, lost>>

-----------------------------------------------------------------------------
(* Review and resolution                                                    *)

ItemRelation(local, other, i) ==
    IF i \notin DOMAIN local THEN "remote_only"
    ELSE IF i \notin DOMAIN other THEN "broken"
    ELSE IF local[i] = other[i] THEN "equal"
    ELSE IF CompareVersionVectors(local[i].vector, other[i].vector) = "remote_ahead"
         THEN "remote_ahead" ELSE "broken"

Reviewable(local, other) ==
    \A i \in DOMAIN local : ItemRelation(local, other, i) # "broken"

NoVector == [d \in {} |-> 0]

VectorOf(items, i) == IF i \in DOMAIN items THEN items[i].vector ELSE NoVector

\* Both sides' versions are behind the one that is chosen, whichever it is.
Stamped(local, other, i, d) ==
    IncrementVersionVector(
        MergeVersionVectors(VectorOf(local, i), VectorOf(other, i)), d)

ResolvedItems(local, other, kept, d) ==
    [i \in DOMAIN local \union DOMAIN other |->
        IF ItemRelation(local, other, i) = "equal" THEN local[i]
        ELSE [vector |-> Stamped(local, other, i, d),
              data |-> IF i \in kept THEN local[i].data ELSE other[i].data]]

Resolved(local, other, kept, d) ==
    [vector |-> IncrementVersionVector(
                    MergeVersionVectors(local.vector, other.vector), d),
     entries |-> ResolvedItems(local.entries, other.entries, kept, d),
     folders |-> ResolvedItems(local.folders, other.folders, kept, d),
     tags |-> ResolvedItems(local.tags, other.tags, kept, d)]

\* Only an item that the device has can be kept; an absence cannot.
MayKeep(local, other) ==
    {i \in DOMAIN local : ItemRelation(local, other, i) = "remote_ahead"}

IsBehind(d) == CompareVersionVectors(vault[d].vector, remote.vector) = "remote_ahead"

AllReviewable(local, other) ==
    /\ Reviewable(local.entries, other.entries)
    /\ Reviewable(local.folders, other.folders)
    /\ Reviewable(local.tags, other.tags)

\* Choosing the remote side of everything adopts the remote vault as it is.
AcceptRemote(d) ==
    /\ IsBehind(d)
    /\ AllReviewable(vault[d], remote)
    /\ ValidOrganization(Resolved(vault[d], remote, {}, d))
    /\ vault' = [vault EXCEPT ![d] = remote]
    /\ UNCHANGED <<remote, form, changes, lost>>

ResolveUnchecked(d) ==                                    \* seeded fault
    /\ IsBehind(d)
    /\ AllReviewable(vault[d], remote)
    /\ \E kept \in (SUBSET (MayKeep(vault[d].entries, remote.entries)
                            \union MayKeep(vault[d].folders, remote.folders)
                            \union MayKeep(vault[d].tags, remote.tags))) \ {{}} :
           LET resolved == Resolved(vault[d], remote, kept, d)
           IN  /\ EntriesFit(resolved)
               /\ Saves(d, resolved)
    /\ UNCHANGED form

Resolve(d) ==
    /\ IsBehind(d)
    /\ AllReviewable(vault[d], remote)
    /\ \E kept \in (SUBSET (MayKeep(vault[d].entries, remote.entries)
                            \union MayKeep(vault[d].folders, remote.folders)
                            \union MayKeep(vault[d].tags, remote.tags))) \ {{}} :
           LET resolved == Resolved(vault[d], remote, kept, d)
           IN  /\ ValidOrganization(resolved)
               /\ Saves(d, resolved)
    /\ UNCHANGED form

\* The upload that did not arrive is repeated, or arrives after all.
Upload(d) ==
    /\ CompareVersionVectors(vault[d].vector, remote.vector) = "local_ahead"
    /\ remote' = vault[d]
    /\ UNCHANGED <<vault, form, changes, lost>>

Next == \E d \in Devices :
    \/ AddEntry(d) \/ UpdateEntry(d) \/ RemoveEntry(d)
    \/ AddFolder(d) \/ UpdateFolder(d) \/ MoveFolder(d) \/ RemoveFolder(d)
    \/ AddTag(d) \/ UpdateTag(d) \/ RemoveTag(d)
    \/ OpenForm(d)
    \/ AcceptRemote(d) \/ Resolve(d) \/ Upload(d)

Spec == Init /\ [][Next]_vars

-----------------------------------------------------------------------------
(* Properties                                                               *)

\* However the choices of a resolution are mixed, and whatever one device moved
\* or removed while another did not know, no vault ever holds an entry in a
\* folder or with a tag that is gone, two folders or tags that cannot be told
\* apart, or folders that contain each other.
VaultsStayOrganized == \A v \in Everywhere : ValidOrganization(v)

\* A device that is behind can always be brought up to date: no item of its
\* vault is newer than or unrelated to the remote one, and taking the remote
\* side of everything is never refused.  A vault of the same version is the
\* same vault.
RemoteAheadCanBeReviewed ==
    \A d \in Devices :
        /\ IsBehind(d) => /\ AllReviewable(vault[d], remote)
                          /\ ValidOrganization(Resolved(vault[d], remote, {}, d))
        /\ CompareVersionVectors(vault[d].vector, remote.vector) = "equal"
               => vault[d] = remote

ItemOf(v, id) ==
    IF id \in Entries THEN v.entries[id]
    ELSE IF id \in Folders THEN v.folders[id] ELSE v.tags[id]

\* A form that was opened before another page or a resolution changed its item
\* never overwrites what it did not show.
SubmitsOverWhatWasShown ==
    [][form # None /\ form' = None
       => ItemOf(vault[form.device], form.id) = form.item]_vars
=============================================================================
