\* Two peers of an interface that PeerBlade does not manage.
CONSTANTS
    Peers = {p, q}
    Addresses = {x}
    MaxQueue = 2
SPECIFICATION Spec
PROPERTIES CommandsCreateNoPeers
