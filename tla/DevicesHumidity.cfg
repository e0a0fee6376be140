CONSTANTS
    Driver = {temperature, humidity}
    Undefined = Undefined
    Sensors <- MCSensors
    Measurements <- MCMeasurements
    Chip = {"", "gpiochip0", "gpiochip4"}
    Offset = {17, 27}
    MaxDescriptors = 3

SPECIFICATION Spec

INVARIANT
    HumidityIsPercent
