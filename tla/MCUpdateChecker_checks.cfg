SPECIFICATION FairSpec
CONSTANTS
    here = here
    there = there
    image = image
    one = one
    two = two
    log = log
    email = email
    Places = {here, there}
    Images = {image}
    Instances = {one, two}
    Notifiers = {log, email}
    ImageOf <- MCImageOf
    InstanceOf <- MCInstanceOf
    MaxVersion = 2
    MaxManual = 1
    MaxTrouble = 1
INVARIANTS ChecksAreFresh AnnouncedWasSent
PROPERTIES NoNeedlessMail Announced
