SPECIFICATION Spec
CONSTANTS
    Users = {u1}
    Devices = {d1}
    NoLink = NoLink
PROPERTIES
    RemovalsReported
