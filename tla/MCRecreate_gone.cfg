\* An older release stays pinned when its image is gone at the time of a replacement.
CONSTANTS
    Entrypoint = Entrypoint
    Cmd = Cmd
    Label = Label
    x = x
    y = y
    data = data
    logs = logs
    disk = disk
    lan = lan
    web = web
    fixed = fixed
    nick = nick
    None = None
    Unnamed = Unnamed
    HostNetwork = HostNetwork
    Settings <- MCSettings
    Values = {x, y}
    Paths = {data, logs}
    Sources = {disk}
    Networks = {lan, web}
    Addresses = {fixed}
    Names = {nick}
    Images <- MCImages
    Asks <- MCAsks
    MaxReplaced = 3
SPECIFICATION Spec
INVARIANTS NothingPinned
CHECK_DEADLOCK FALSE
