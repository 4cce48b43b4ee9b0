SPECIFICATION GraphSpec
CONSTANTS
    Documents <- ModelDocuments
    Manifests <- ModelManifests
    Core = {"crop", "trace", "merge"}
    Payloads <- ModelPayloads
    NoGroup = NoGroup
    Bad = Bad
INVARIANTS
    InputsAreTyped
    AcceptedIsAcyclic
    AcceptedNeverFails
