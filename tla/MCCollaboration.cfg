SPECIFICATION Spec
CONSTANTS
    author = author
    owner = owner
    director = director
    r1 = r1
    a1 = a1
    wip = wip
    final = final
    front = front
    side = side
    a2 = a2
    image = image
    Sessions = {p1, p2}
    People = {author, owner, director}
    ActorOf <- Actors
    Ids = {r1}
    Assets = {a1}
    Statuses = {wip, final}
    OwnerOf <- Owners
    Acts <- SomeActs
    Readers = {owner}
    MaxEvents = 4
    Writers = {p1, p2}
    Staff = {author, owner, director}
    StaffActor <- Actors
    KindOwner = owner
    Views = {front, side}
    Fleeting = {side}
    Calls <- SomeCalls
    MaxCalls = 5
    Callers = {p1, p2}
    Catalogue = {a1, a2}
    Images = {image}
    ImagesOf <- SomeViews
    Terms = {"t1", "t2"}
    Written = {"T 2", "!"}
    Normal <- Normalised
    NameOf <- SomeNames
    Deciders = {author, owner}
    DeciderActor <- SomeDeciders
    ArtOwner <- ArtOwners
    MaxAsked = 3
    MaxOutside = 1
SYMMETRY Symmetry
PROPERTIES
    
    
    SuggestionsAreSettled
